---- MODULE Spec2Model ----
(***************************************************************************)
(* Projection geometry, stereo compositing and scene management of the     *)
(* videojs-vr plugin (class VR of src/src/orbit-orientation-controls.js,   *)
(* lines 1598-3349) together with the HUD callbacks that drive it.         *)
(*                                                                         *)
(* Mesh objects are modelled as small integer handles; 0 stands for        *)
(* null/undefined.  A new mesh takes a handle above all live ones; after   *)
(* each operation the handles nothing refers to are collected and the live *)
(* ones are renumbered in order of age.  A texture is only ever compared   *)
(* with this.videoTexture and this.posterTexture, so a material's texture  *)
(* reference is kept as "video" (the current this.videoTexture), "poster"  *)
(* (the current this.posterTexture), "stale" (a texture the plugin no      *)
(* longer holds) or "none" (the material has no such property).            *)
(*                                                                         *)
(* The lifecycle (controls, HUD, gallery, animation loop, listeners) and   *)
(* the orientation offset of class OrbitOrientationControls (lines 42-193) *)
(* and of the HUD (src/src/vr-hud.js) are part of the same state.  Angles  *)
(* are integers counting steps of pi/4.                                    *)
(***************************************************************************)
EXTENDS Integers, FiniteSets, Sequences, TLC

\* ------------------------------------------------------------------ bounds
MaxMeshes == 5
MaxNest == 3
MaxPending == 1
MaxLive == 2
MaxAngle == 3
MaxNotes == 2

MeshIds == 1..MaxMeshes

\* ------------------------------------------------- projection identifiers
Undefined == "undefined"

\* canonical names (utils.validProjections)
validProjections ==
  {"360", "360_LR", "360_TB", "360_CUBE", "EAC", "EAC_LR", "NONE", "AUTO",
   "180", "180_LR", "180_TB", "180_MONO", "SBS_MONO"}

\* identifiers a caller can pass: canonical names, aliases, other letter
\* cases, an unknown name and the absent value
Identifiers ==
  validProjections \cup {"Sphere", "Cube", "equirectangular", "auto", "360_lr",
                         "BOGUS", Undefined}

\* values of player.mediainfo.projection
MediaHints == {Undefined, "360", "360_LR", "EAC", "360_lr", "AUTO", "auto", "BOGUS", "NONE"}

\* utils.getInternalProjectionName: the absent value and a name that matches
\* no identifier exactly give undefined; Sphere and equirectangular name
\* 360, Cube names 360_CUBE; a canonical name is returned as it is
getInternalProjectionName(p) ==
  IF p = Undefined THEN Undefined
  ELSE IF p \in {"Sphere", "equirectangular"} THEN "360"
  ELSE IF p = "Cube" THEN "360_CUBE"
  ELSE IF p \in validProjections THEN p
  ELSE Undefined

\* ------------------------------------------------------------ THREE.Layers
\* a Layers mask is the set of enabled layer numbers
LayersDefault == {0}
LayersSet(n) == {n}
LayersEnable(l, n) == l \cup {n}
LayersDisableAll == {}
LayersEnableAll == 0..31

\* the two eye cameras of an XR session: each renders the shared default
\* layer 0 plus its own eye layer
LeftEyeLayers == {0, 1}
RightEyeLayers == {0, 2}
VisibleToLeft(l) == l \cap LeftEyeLayers # {}
VisibleToRight(l) == l \cap RightEyeLayers # {}

\* ------------------------------------------------------------- coordinates
\* The sines and cosines of the multiples of pi/4 and their products are the
\* numbers (a + b * sqrt(2)) / 2 with integers a and b.
Num(a, b) == [a |-> a, b |-> b]
NumTimes(m, n) ==
  Num((m.a * n.a + 2 * m.b * n.b) \div 2, (m.a * n.b + m.b * n.a) \div 2)
NumScale(k, n) == Num(k * n.a, k * n.b)

\* Math.sin and Math.cos of k steps of pi/4
Sin(k) ==
  CASE k % 8 = 0 -> Num(0, 0)
    [] k % 8 = 1 -> Num(0, 1)
    [] k % 8 = 2 -> Num(2, 0)
    [] k % 8 = 3 -> Num(0, 1)
    [] k % 8 = 4 -> Num(0, 0)
    [] k % 8 = 5 -> Num(0, 0 - 1)
    [] k % 8 = 6 -> Num(0 - 2, 0)
    [] OTHER -> Num(0, 0 - 1)
Cos(k) == Sin(k + 2)

\* THREE.Vector3; finite is FALSE when a component is NaN
Vector3(x, y, z) == [x |-> x, y |-> y, z |-> z, finite |-> TRUE]
VectorNaN == [x |-> Num(0, 0), y |-> Num(0, 0), z |-> Num(0, 0), finite |-> FALSE]
Origin == Vector3(Num(0, 0), Num(0, 0), Num(0, 0))

\* const distance = 3, of the SBS_MONO build and of onOrientationChange
distance == 3

\* position.set(0, 0, -distance) of the SBS_MONO build
FlatBuildPosition == Vector3(Num(0, 0), Num(0, 0), NumScale(0 - distance, Num(2, 0)))

\* ------------------------------------------------------------- UV arithmetic
\* JavaScript numbers as fractions n / d with d >= 0: d = 0 stands for
\* Infinity (n > 0), -Infinity (n < 0) and NaN (n = 0), which is what a
\* division by zero yields.
Abs(i) == IF i < 0 THEN 0 - i ELSE i

RECURSIVE GCD(_, _)
GCD(a, b) == IF b = 0 THEN a ELSE GCD(b, a % b)

Sign(i) == IF i > 0 THEN 1 ELSE IF i < 0 THEN 0 - 1 ELSE 0

Rat(n, d) ==
  IF d = 0 THEN [n |-> Sign(n), d |-> 0]
  ELSE LET g == GCD(Abs(n), Abs(d)) IN
       [n |-> Sign(d) * (n \div g), d |-> Abs(d) \div g]

RatPlus(a, b) == Rat(a.n * b.d + b.n * a.d, a.d * b.d)
RatMinus(a, b) == Rat(a.n * b.d - b.n * a.d, a.d * b.d)
RatTimes(a, b) == Rat(a.n * b.n, a.d * b.d)
RatDiv(a, b) ==
  IF b.d = 0 THEN (IF b.n = 0 \/ a.d = 0 THEN Rat(0, 0) ELSE Rat(0, 1))
  ELSE Rat(a.n * b.d, a.d * b.n)

IsNaN(a) == a.d = 0 /\ a.n = 0
IsFinite(a) == a.d # 0
\* a < b and a > b as JavaScript compares: false when either side is NaN
RatLess(a, b) == ~IsNaN(a) /\ ~IsNaN(b) /\ a.n * b.d < b.n * a.d
RatGreater(a, b) == RatLess(b, a)
\* Math.abs(a - b) < Number.EPSILON, in exact arithmetic
RatClose(a, b) == IsFinite(a) /\ IsFinite(b) /\ a = b

Whole(i) == Rat(i, 1)
Half == Rat(1, 2)
UV(u, v) == [u |-> u, v |-> v]

\* video.videoWidth and video.videoHeight
FrameOf(w, h) == [w |-> w, h |-> h]
DefaultFrame == FrameOf(3840, 2160)

\* UVs of the vertices of a SphereBufferGeometry or PlaneBufferGeometry: the
\* corners and the middle of the unit square stand for all of them
SampleUVs == {UV(u, v) : u \in {Whole(0), Half, Whole(1)}, v \in {Whole(0), Half, Whole(1)}}

\* the corner lists of the 360_CUBE branch
CubeFaces ==
  LET a == Rat(333, 1000)
      b == Rat(666, 1000)
      rect(u0, u1, v0, v1) == <<UV(u0, v0), UV(u1, v0), UV(u1, v1), UV(u0, v1)>>
  IN {rect(Whole(0), a, Half, Whole(1)), rect(a, b, Half, Whole(1)), rect(b, Whole(1), Half, Whole(1)),
      rect(Whole(0), a, Whole(0), Half), rect(a, b, Whole(0), Half), rect(b, Whole(1), Whole(0), Half)}

\* const contCorrect = 2
contCorrect == 2

\* the corner lists right, front, left, bottom, back, top of makeScreen
EACFaces ==
  LET a == Rat(1, 3)
      b == Rat(2, 3)
      o == Whole(0)
      l == Whole(1)
  IN {<<UV(o, Half), UV(a, Half), UV(a, l), UV(o, l)>>,
      <<UV(a, Half), UV(b, Half), UV(b, l), UV(a, l)>>,
      <<UV(b, Half), UV(l, Half), UV(l, l), UV(b, l)>>,
      <<UV(a, o), UV(a, Half), UV(o, Half), UV(o, o)>>,
      <<UV(a, Half), UV(a, o), UV(b, o), UV(b, Half)>>,
      <<UV(l, o), UV(l, Half), UV(b, Half), UV(b, o)>>}

\* lowY and highY of a face: the least and the greatest y of its corners
LowY(face) ==
  LET ys == {face[k].v : k \in 1..4}
  IN CHOOSE y \in ys : \A z \in ys : ~RatLess(z, y)
HighY(face) ==
  LET ys == {face[k].v : k \in 1..4}
  IN CHOOSE y \in ys : \A z \in ys : ~RatGreater(z, y)

\* the body of the correction loop of makeScreen for one corner
CorrectCorner(vector, lowY, highY, height) ==
  LET inset == RatDiv(Whole(contCorrect), Whole(height))
      y1 == IF RatClose(vector.v, lowY) THEN RatPlus(vector.v, inset) ELSE vector.v
      y2 == IF RatClose(y1, highY) THEN RatMinus(y1, inset) ELSE y1
  IN UV(RatPlus(RatTimes(RatDiv(vector.u, Whole(height)),
                         Whole(height - contCorrect * 2)), inset), y2)

\* the corners of a face after the correction loop
CorrectedFace(face, height) ==
  [k \in 1..4 |-> CorrectCorner(face[k], LowY(face), HighY(face), height)]

\* vUv = (mapMatrix * vec3(uv, 1.)).xy of the vertex shader, with the
\* matrices of EAC (identity) and of the two eyes of EAC_LR
MapMatrix(eye, uv) ==
  CASE eye = "left" -> UV(RatPlus(RatTimes(Rat(0 - 1, 2), uv.v), Half), uv.u)
    [] eye = "right" -> UV(RatPlus(RatTimes(Rat(0 - 1, 2), uv.v), Whole(1)), uv.u)
    [] OTHER -> uv

\* every eye given the half of the left eye
WrittenUVs_leftHalfOnly(kind, eye, frame) ==
  LET leftHalfU == {UV(RatTimes(uv.u, Half), uv.v) : uv \in SampleUVs}
      upperHalfV == {UV(uv.u, RatPlus(RatTimes(uv.v, Half), Half)) : uv \in SampleUVs}
  IN CASE kind \in {"360", "180_MONO"} -> SampleUVs
       [] kind \in {"360_LR", "180", "180_LR", "SBS_MONO"} -> leftHalfU
       [] kind = "360_TB" -> upperHalfV
       [] kind = "360_CUBE" -> {face[k] : face \in CubeFaces, k \in 1..4}
       [] kind \in {"EAC", "EAC_LR"} ->
            {CorrectedFace(face, frame.h)[k] : face \in EACFaces, k \in 1..4}
       [] OTHER -> {}

\* the uv attribute a branch of changeProjection_ leaves on the geometry of
\* the surface for one eye, from the frame size read at the build
WrittenUVs(kind, eye, frame) ==
  LET leftHalfU == {UV(RatTimes(uv.u, Half), uv.v) : uv \in SampleUVs}
      rightHalfU == {UV(RatPlus(RatTimes(uv.u, Half), Half), uv.v) : uv \in SampleUVs}
      upperHalfV == {UV(uv.u, RatPlus(RatTimes(uv.v, Half), Half)) : uv \in SampleUVs}
      lowerHalfV == {UV(uv.u, RatTimes(uv.v, Half)) : uv \in SampleUVs}
  IN CASE kind \in {"360", "180_MONO"} -> SampleUVs
       [] kind \in {"360_LR", "180", "180_LR"} ->
            IF eye = "left" THEN leftHalfU ELSE rightHalfU
       [] kind = "360_TB" -> IF eye = "left" THEN upperHalfV ELSE lowerHalfV
       [] kind = "360_CUBE" -> {face[k] : face \in CubeFaces, k \in 1..4}
       [] kind \in {"EAC", "EAC_LR"} ->
            {CorrectedFace(face, frame.h)[k] : face \in EACFaces, k \in 1..4}
       [] kind = "SBS_MONO" -> IF eye = "right" THEN rightHalfU ELSE leftHalfU
       [] OTHER -> {}

\* the coordinates at which a surface samples the frame: the uv attribute,
\* taken through mapMatrix by the shader of the EAC kinds
SampledUVs(kind, eye, frame) ==
  IF kind = "EAC_LR"
  THEN {MapMatrix(eye, uv) : uv \in WrittenUVs(kind, eye, frame)}
  ELSE WrittenUVs(kind, eye, frame)

\* this.camera.aspect, the player being 16 by 9
cameraAspect == Rat(16, 9)

\* planeWidth and planeHeight of the SBS_MONO branch, in units of
\* viewportHeight = 2 * distance * tan(fov / 2)
PlaneSize(frame) ==
  LET videoWidth == RatDiv(Whole(frame.w), Whole(2))
      videoAspect == RatDiv(videoWidth, Whole(frame.h))
      viewportHeight == Whole(1)
      viewportWidth == RatTimes(viewportHeight, cameraAspect)
      viewportAspect == RatDiv(viewportWidth, viewportHeight)
  IN IF RatGreater(videoAspect, viewportAspect)
     THEN [planeWidth |-> viewportWidth,
           planeHeight |-> RatDiv(viewportWidth, videoAspect)]
     ELSE [planeWidth |-> RatTimes(viewportHeight, videoAspect),
           planeHeight |-> viewportHeight]

\* ------------------------------------------------------------------ meshes
\* `kind` is the branch of changeProjection_ that made the geometry; `quat`
\* is the rotation of the mesh after the one its build gave it, as the
\* rotations multiplied onto it, and `base` the value of
\* userData.baseQuaternion when baseQuat tells that it is set; `position` is
\* mesh.position and `frame` the size of the video frame its geometry was
\* computed from
NoMesh == [eye |-> "none", mat |-> "none", map |-> "none", mapped |-> "none",
           layers |-> {}, geomDisposed |-> FALSE, matDisposed |-> FALSE,
           baseQuat |-> FALSE, base |-> <<>>, quat |-> <<>>,
           position |-> Origin, frame |-> DefaultFrame, kind |-> "none"]

\* new THREE.Mesh(geometry, new MeshBasicMaterial({map: tex}))
BasicMesh(eye, tex, layers) ==
  [eye |-> eye, mat |-> "basic", map |-> tex, mapped |-> "none",
   layers |-> layers, geomDisposed |-> FALSE, matDisposed |-> FALSE,
   baseQuat |-> FALSE, base |-> <<>>, quat |-> <<>>,
   position |-> Origin, frame |-> DefaultFrame, kind |-> "none"]

\* new THREE.Mesh(geometry, new ShaderMaterial({uniforms: {mapped: tex}}))
ShaderMesh(eye, tex, layers) ==
  [eye |-> eye, mat |-> "shader", map |-> "none", mapped |-> tex,
   layers |-> layers, geomDisposed |-> FALSE, matDisposed |-> FALSE,
   baseQuat |-> FALSE, base |-> <<>>, quat |-> <<>>,
   position |-> Origin, frame |-> DefaultFrame, kind |-> "none"]

Max(S) == IF S = {} THEN 0 ELSE CHOOSE x \in S : \A y \in S : x >= y

\* ------------------------------------------------------------------ angles
\* Angles are counted in steps of pi/4, so Math.PI / 2 is two steps.
HalfPi == 2
Angles == (0 - MaxAngle)..MaxAngle

\* THREE.Euler; `defined` is FALSE when the components hold undefined
EulerOf(x, y, z) == [x |-> x, y |-> y, z |-> z, defined |-> TRUE]
EulerZero == EulerOf(0, 0, 0)
EulerUndefined == [x |-> 0, y |-> 0, z |-> 0, defined |-> FALSE]

\* an angle brought into (-pi, pi]
NormAngle(a) == ((a + 3) % 8) - 3

\* new THREE.Euler(euler.x, euler.y, 0, 'YXZ'): a component that is
\* undefined takes the default 0
SafeEuler(euler) ==
  IF euler.defined THEN [x |-> NormAngle(euler.x), y |-> NormAngle(euler.y)]
  ELSE [x |-> 0, y |-> 0]

\* quaternion.copy(q).multiply(new Quaternion().setFromEuler(e)): a yaw
\* after a yaw and a pitch after a pitch add up, the identity changes
\* nothing
QuatMultiply(q, e) ==
  LET n == Len(q)
      last == q[n]
      merged == IF n > 0 /\ last.x = 0
                THEN [x |-> e.x, y |-> NormAngle(last.y + e.y)]
                ELSE [x |-> NormAngle(last.x + e.x), y |-> last.y]
  IN IF e.x = 0 /\ e.y = 0 THEN q
     ELSE IF n > 0 /\ (last.x = 0 \/ e.y = 0)
     THEN IF merged.x = 0 /\ merged.y = 0 THEN SubSeq(q, 1, n - 1)
          ELSE [q EXCEPT ![n] = merged]
     ELSE Append(q, e)

\* the argument of setOrientationOffset: a THREE.Euler (isEuler) or an
\* object literal {x, y, z}
OffsetArg(x, y, z, isEuler) == [x |-> x, y |-> y, z |-> z, isEuler |-> isEuler]

\* Math.max(-Math.PI / 2, Math.min(Math.PI / 2, v))
ClampPitch(v) == IF v > HalfPi THEN HalfPi ELSE IF v < 0 - HalfPi THEN 0 - HalfPi ELSE v

\* the Vector3 of Quat2Angle as far as update() reads it: y is the roll and
\* z the yaw
AngleOf(y, z) == [y |-> y, z |-> z]

\* what update() has fed to the orbit so far, counted in halves of a step:
\* the readings of the last update and of the one before, the first reading,
\* the last delta and the sum of the deltas; updates stops counting at 2
NothingFed ==
  [updates |-> 0, read |-> AngleOf(0, 0), prevRead |-> AngleOf(0, 0),
   firstRead |-> AngleOf(0, 0), delta |-> AngleOf(0, 0), sum |-> AngleOf(0, 0)]

\* typeof this.lastAngle_ === 'undefined'
NoAngle == [defined |-> FALSE, y |-> 0, z |-> 0]

\* this.controls3d === null
NoControls == [exists |-> FALSE, halfView |-> FALSE, orientation |-> FALSE,
               orientationOffset |-> EulerZero,
               lastAngle_ |-> NoAngle, fed |-> NothingFed]

\* isDraggingOrientation and draggingController of the HUD with the
\* dragStartRotation of the gesture: by is "none", "mouse" or "controller"
NoDrag == [by |-> "none", dragStartRotation |-> EulerZero]

\* ------------------------------------------------- gallery thumbnail loader
\* One thumbnail of the gallery, in the first row of the grid, and what the
\* gallery records about its URL.  Times are in milliseconds; age is
\* Date.now() - lastAttempt of the URL's failedLoads entry.
maxRetries == 10
retryBackoff == 5000
scrollRetryAge == 2000
maxScroll == 1
MaxAge == 6000
MaxAttempts == 12
Elapses == {1000, 3000}

NewThumbnail ==
  [loaded |-> FALSE, permanentlyFailed |-> FALSE, loading |-> FALSE,
   failed |-> FALSE, retries |-> 0, age |-> 0,
   scrollPosition |-> 0, isVisible |-> FALSE, thumbnailsLoaded |-> FALSE,
   scrollDebounceTimer |-> FALSE, throttled |-> FALSE,
   attempts |-> 0, afterBlacklist |-> FALSE, succeeded |-> FALSE]

\* the thumbnail is within the clipping region and its buffer
InView(G) == G.scrollPosition = 0

\* VRGallery.loadThumbnailTexture up to the start of the request
loadThumbnailTexture(G) ==
  IF G.loaded \/ G.permanentlyFailed \/ G.loading THEN G
  ELSE IF G.failed /\ G.retries >= maxRetries
    THEN [G EXCEPT !.permanentlyFailed = TRUE, !.loading = FALSE]
  ELSE IF G.failed /\ G.age < retryBackoff THEN G
  ELSE [G EXCEPT !.loading = TRUE, !.attempts = @ + 1,
                 !.afterBlacklist = @ \/ G.permanentlyFailed]

\* the failure callbacks of loadThumbnailTexture, which count every failure
\* once
loadFailed_(G) ==
  LET currentRetries == (IF G.failed THEN G.retries ELSE 0) + 1
  IN [G EXCEPT !.failed = TRUE, !.retries = currentRetries, !.age = 0,
               !.permanentlyFailed = @ \/ currentRetries >= maxRetries,
               !.loading = FALSE]

\* the success callback of loadThumbnailTexture
loadSucceeded_(G) ==
  [G EXCEPT !.loaded = TRUE, !.failed = FALSE, !.retries = 0, !.age = 0,
            !.loading = FALSE, !.succeeded = TRUE]

\* the loops over failedLoads that delete the entries below maxRetries
\* whose last attempt is older than a given age
forgetFailures(G, olderThan) ==
  IF G.failed /\ G.retries < maxRetries /\ G.age > olderThan
  THEN [G EXCEPT !.failed = FALSE, !.retries = 0, !.age = 0]
  ELSE G

\* VRGallery.loadVisibleThumbnails
loadVisibleThumbnails(G) ==
  LET G1 == forgetFailures(G, retryBackoff)
  IN IF ~G1.loaded /\ ~G1.loading /\ ~G1.permanentlyFailed /\ InView(G1)
     THEN loadThumbnailTexture(G1)
     ELSE G1

\* VRGallery.handleScroll, up to the start of its timer
handleScroll(G, delta) ==
  LET moved == G.scrollPosition + delta
      clamped == IF moved < 0 THEN 0
                 ELSE IF moved > maxScroll THEN maxScroll ELSE moved
  IN [G EXCEPT !.scrollPosition = clamped, !.scrollDebounceTimer = TRUE]

\* the callback of the timer of handleScroll
scrollDebounced(G) ==
  loadVisibleThumbnails(
    forgetFailures([G EXCEPT !.scrollDebounceTimer = FALSE], scrollRetryAge))

\* VRGallery.show
galleryShow(G) ==
  LET G1 == [G EXCEPT !.isVisible = TRUE]
  IN IF ~G1.thumbnailsLoaded
     THEN loadVisibleThumbnails([G1 EXCEPT !.thumbnailsLoaded = TRUE])
     ELSE G1

\* VRGallery.hide
galleryHide(G) == [G EXCEPT !.isVisible = FALSE]

\* VRGallery.update
galleryUpdate(G) ==
  IF ~G.isVisible THEN G
  ELSE IF ~G.throttled
    THEN loadVisibleThumbnails([G EXCEPT !.throttled = TRUE])
  ELSE G

\* VRGallery.setMediaItems with the same items
setMediaItems(G) ==
  [G EXCEPT !.scrollPosition = 0, !.thumbnailsLoaded = FALSE]

\* time passes
elapse(G, dt) ==
  [G EXCEPT !.age = IF ~G.failed THEN 0
                    ELSE IF @ + dt > MaxAge THEN MaxAge ELSE @ + dt,
            !.throttled = FALSE]

\* no notification emitted
NoneEmitted == [projection |-> 0, orientation |-> 0]

VARIABLES
  currentProjection_, defaultProjection_, mediainfo,
  initialized_, sceneExists, children, mesh,
  movieScreen, movieScreenLeft, movieScreenRight,
  videoTexture, posterTexture, usingPoster, posterPending, playingHook,
  rendererExists, xrEnabled, presenting, webXRSupported_, pendingChecks,
  cameraLayers,
  forceMonoEnabled, vrHUD, hudForceMono,
  controls3d, vrGallery, liveHUDs, liveGalleries,
  useSetAnimationLoop_, xrLoop, rafPending, animationFrameId_,
  windowListeners, paused, corsErrors,
  mobile, hudOrientationOffset, isDraggingOrientation, sensorYaw, cameraYaw,
  lastOp, lastArg, warned, lastBuild, built, nested, threw, sameObjects,
  oldReleased, rendered, emitted, before,
  hudAutoHideDelay, isVisible, isInXRSession, hideTimeout,
  autoHideClosures, hideTimer, deviceOrientation, videoSize,
  thumbnail

\* the state of the plugin object, without the gallery's thumbnail loader
pluginVars == <<currentProjection_, defaultProjection_, mediainfo,
  initialized_, sceneExists, children, mesh,
  movieScreen, movieScreenLeft, movieScreenRight,
  videoTexture, posterTexture, usingPoster, posterPending, playingHook,
  rendererExists, xrEnabled, presenting, webXRSupported_, pendingChecks,
  cameraLayers,
  forceMonoEnabled, vrHUD, hudForceMono,
  controls3d, vrGallery, liveHUDs, liveGalleries,
  useSetAnimationLoop_, xrLoop, rafPending, animationFrameId_,
  windowListeners, paused, corsErrors,
  mobile, hudOrientationOffset, isDraggingOrientation, sensorYaw, cameraYaw,
  lastOp, lastArg, warned, lastBuild, built, nested, threw, sameObjects,
  oldReleased, rendered, emitted, before,
  hudAutoHideDelay, isVisible, isInXRSession, hideTimeout,
  autoHideClosures, hideTimer, deviceOrientation, videoSize>>

vars == <<currentProjection_, defaultProjection_, mediainfo,
  initialized_, sceneExists, children, mesh,
  movieScreen, movieScreenLeft, movieScreenRight,
  videoTexture, posterTexture, usingPoster, posterPending, playingHook,
  rendererExists, xrEnabled, presenting, webXRSupported_, pendingChecks,
  cameraLayers,
  forceMonoEnabled, vrHUD, hudForceMono,
  controls3d, vrGallery, liveHUDs, liveGalleries,
  useSetAnimationLoop_, xrLoop, rafPending, animationFrameId_,
  windowListeners, paused, corsErrors,
  mobile, hudOrientationOffset, isDraggingOrientation, sensorYaw, cameraYaw,
  lastOp, lastArg, warned, lastBuild, built, nested, threw, sameObjects,
  oldReleased, rendered, emitted, before,
  hudAutoHideDelay, isVisible, isInXRSession, hideTimeout,
  autoHideClosures, hideTimer, deviceOrientation, videoSize,
  thumbnail>>

\* --------------------------------------------------------- plugin record
\* The fields of the plugin (and of the objects it owns) gathered in one
\* record, so that a method and the methods it calls can be followed as
\* functions from record to record.
NoBuild == [arg |-> Undefined, kind |-> Undefined, xr |-> FALSE, surfaces |-> {}]

This ==
  [cur |-> currentProjection_, def |-> defaultProjection_, hint |-> mediainfo,
   init |-> initialized_, scene |-> sceneExists, children |-> children,
   mesh |-> mesh, ms |-> movieScreen, msl |-> movieScreenLeft,
   msr |-> movieScreenRight, tex |-> videoTexture, poster |-> posterTexture,
   usingPoster |-> usingPoster, posterPending |-> posterPending,
   playingHook |-> playingHook, renderer |-> rendererExists,
   xrEnabled |-> xrEnabled, xr |-> presenting, webxr |-> webXRSupported_,
   pending |-> pendingChecks, camLayers |-> cameraLayers,
   fm |-> forceMonoEnabled, hud |-> vrHUD, hudFM |-> hudForceMono,
   controls |-> controls3d, gallery |-> vrGallery,
   liveHUDs |-> liveHUDs, liveGalleries |-> liveGalleries,
   useLoop |-> useSetAnimationLoop_, xrLoop |-> xrLoop,
   raf |-> rafPending, rafId |-> animationFrameId_,
   listeners |-> windowListeners, paused |-> paused,
   corsErrors |-> corsErrors, mobile |-> mobile,
   hudOffset |-> hudOrientationOffset, dragging |-> isDraggingOrientation,
   sensorYaw |-> sensorYaw, camYaw |-> cameraYaw,
   hudDelay |-> hudAutoHideDelay, visible |-> isVisible,
   inXR |-> isInXRSession, hideTimeout |-> hideTimeout,
   closures |-> autoHideClosures, hideTimer |-> hideTimer,
   device |-> deviceOrientation, video |-> videoSize,
   \* what the operation in progress has done so far
   warned |-> FALSE, lastBuild |-> NoBuild, built |-> {}, nested |-> 0,
   threw |-> FALSE, oldReleased |-> TRUE, rendered |-> FALSE,
   emitted |-> NoneEmitted]

\* handles that are referred to by the plugin or the scene
LiveMeshes(P) == (P.children \cup {P.ms, P.msl, P.msr}) \ {0}

\* new THREE.Mesh: a handle above the live ones and those just created
NewMeshId(P, reserved) == Max(reserved \cup P.built) + 1

\* this.videoTexture = new THREE.VideoTexture(...): what referred to the old
\* texture now refers to a texture the plugin no longer holds
ReplaceTexture(P, which) ==
  [i \in MeshIds |->
     [P.mesh[i] EXCEPT !.map = IF @ = which THEN "stale" ELSE @,
                       !.mapped = IF @ = which THEN "stale" ELSE @]]

\* renderer && renderer.xr && renderer.xr.isPresenting
IsPresenting(P) == P.renderer /\ P.xr

\* ------------------------------------------------------- changeProjection_
\* scene.remove(movieScreen) and of the eye meshes
RemoveScreens(P) ==
  IF ~P.scene THEN P
  ELSE [P EXCEPT !.children = @ \ {P.ms, P.msl, P.msr},
                 !.msl = 0, !.msr = 0]

\* one mesh on the scene, kept as movieScreen (360, 360_CUBE, 180_MONO, EAC,
\* SBS_MONO outside XR)
BuildMono(P, reserved, kind, rec) ==
  LET id == NewMeshId(P, reserved) IN
  [P EXCEPT !.mesh = [@ EXCEPT ![id] = [rec EXCEPT !.kind = kind,
                                                   !.frame = P.video]],
            !.children = @ \cup {id},
            !.ms = id,
            !.built = @ \cup {id}]

\* a left and a right mesh on the scene; movieScreen refers to the left one
BuildPair(P, reserved, kind, recL, recR) ==
  LET idL == NewMeshId(P, reserved)
      idR == idL + 1 IN
  [P EXCEPT !.mesh = [@ EXCEPT ![idL] = [recL EXCEPT !.kind = kind,
                                                      !.frame = P.video],
                               ![idR] = [recR EXCEPT !.kind = kind,
                                                      !.frame = P.video]],
            !.children = @ \cup {idL, idR},
            !.msl = idL, !.msr = idR, !.ms = idL,
            !.built = @ \cup {idL, idR}]

\* the branch of the conditional chain for a concrete projection name;
\* NONE and a name without a branch build nothing
BuildProjection(P, projection, reserved) ==
  CASE projection \in {"360", "360_CUBE"} ->
         BuildMono(P, reserved, projection, BasicMesh("mono", "video", LayersDefault))
    [] projection \in {"360_LR", "360_TB", "180", "180_LR"} ->
         BuildPair(P, reserved, projection, BasicMesh("left", "video", LayersSet(1)),
                                BasicMesh("right", "video", LayersSet(2)))
    [] projection = "180_MONO" ->
         BuildMono(P, reserved, projection,
           BasicMesh("mono", "video",
             LayersEnable(LayersEnable(LayersEnable(LayersDefault, 0), 1), 2)))
    [] projection = "EAC" ->
         BuildMono(P, reserved, projection, ShaderMesh("mono", "video", LayersDefault))
    [] projection = "EAC_LR" ->
         BuildPair(P, reserved, projection, ShaderMesh("left", "video", LayersSet(1)),
                                ShaderMesh("right", "video", LayersSet(2)))
    [] projection = "SBS_MONO" ->
         LET Flat(m) == [m EXCEPT !.position = FlatBuildPosition]
             V == IF IsPresenting(P)
                  THEN BuildPair(P, reserved, projection,
                                 Flat(BasicMesh("left", "video", LayersSet(1))),
                                 Flat(BasicMesh("right", "video", LayersSet(2))))
                  ELSE BuildMono(P, reserved, projection,
                         Flat(BasicMesh("mono", "video",
                           LayersEnable(LayersEnable(LayersEnable(LayersDefault, 0), 1), 2))))
         IN V
    [] OTHER -> P

\* the test `mediainfo.projection !== 'AUTO'` is missing
RECURSIVE changeProjection_noAutoTest(_, _, _, _)
changeProjection_noAutoTest(P, arg, reserved, fuel) ==
  LET name == getInternalProjectionName(arg)
      projection == IF name = Undefined THEN "NONE" ELSE name
      R == RemoveScreens(P)
  IN
  IF projection = "AUTO"
  THEN IF fuel = 0
       THEN [R EXCEPT !.threw = TRUE]
       ELSE IF P.hint # Undefined
            THEN changeProjection_noAutoTest([R EXCEPT !.nested = @ + 1],
                                             getInternalProjectionName(P.hint),
                                             reserved, fuel - 1)
            ELSE changeProjection_noAutoTest([R EXCEPT !.nested = @ + 1], "NONE",
                                             reserved, fuel - 1)
  ELSE LET B == BuildProjection(R, projection, reserved) IN
       [B EXCEPT !.cur = projection,
                 !.lastBuild = [arg |-> arg, kind |-> projection, xr |-> IsPresenting(P),
                                surfaces |-> {[eye |-> B.mesh[i].eye,
                                               layers |-> B.mesh[i].layers] : i \in B.built}]]

\* `fuel` is the call depth left before the engine raises RangeError
RECURSIVE changeProjection_(_, _, _, _)
changeProjection_(P, arg, reserved, fuel) ==
  LET name == getInternalProjectionName(arg)
      projection == IF name = Undefined THEN "NONE" ELSE name
      R == RemoveScreens(P)
  IN
  IF projection = "AUTO"
  THEN IF fuel = 0
       THEN [R EXCEPT !.threw = TRUE]
       ELSE IF P.hint # Undefined /\ P.hint # "AUTO"
            THEN changeProjection_([R EXCEPT !.nested = @ + 1],
                                   getInternalProjectionName(P.hint),
                                   reserved, fuel - 1)
            ELSE changeProjection_([R EXCEPT !.nested = @ + 1], "NONE",
                                   reserved, fuel - 1)
  ELSE LET B == BuildProjection(R, projection, reserved) IN
       [B EXCEPT !.cur = projection,
                 !.lastBuild = [arg |-> arg, kind |-> projection, xr |-> IsPresenting(P),
                                surfaces |-> {[eye |-> B.mesh[i].eye,
                                               layers |-> B.mesh[i].layers] : i \in B.built}]]

\* ------------------------------------------------ applyForceMonoProjection_
\* the right mesh is given layer 0 with layers.toggle(0), not layers.set(0)
applyForceMonoProjection_toggle(P) ==
  IF ~IsPresenting(P) THEN P
  ELSE IF ~P.scene THEN P
  ELSE IF P.msl # 0 /\ P.msr # 0
  THEN IF P.fm
       THEN [P EXCEPT !.mesh[P.msl].layers = LayersEnable(LayersSet(1), 2),
                      !.mesh[P.msr].layers = IF 0 \in @ THEN @ \ {0}
                                               ELSE @ \cup {0}]
       ELSE [P EXCEPT !.mesh[P.msl].layers = LayersSet(1),
                      !.mesh[P.msr].layers = LayersSet(2)]
  ELSE IF P.ms # 0
  THEN [P EXCEPT !.mesh[P.ms].layers = LayersEnable(LayersEnable(LayersSet(0), 1), 2)]
  ELSE P

applyForceMonoProjection_(P) ==
  IF ~IsPresenting(P) THEN P
  ELSE IF ~P.scene THEN P
  ELSE IF P.msl # 0 /\ P.msr # 0
  THEN IF P.fm
       THEN [P EXCEPT !.mesh[P.msl].layers = LayersEnable(LayersSet(1), 2),
                      !.mesh[P.msr].layers = LayersSet(0)]
       ELSE [P EXCEPT !.mesh[P.msl].layers = LayersSet(1),
                      !.mesh[P.msr].layers = LayersSet(2)]
  ELSE IF P.ms # 0
  THEN [P EXCEPT !.mesh[P.ms].layers = LayersEnable(LayersEnable(LayersSet(0), 1), 2)]
  ELSE P

\* ------------------------------------------------------------ setProjection
\* the meshes of the scene whose material.map is the given texture of the
\* plugin ("video" or "poster")
MapIs(P, which) ==
  {i \in P.children : P.mesh[i].mat # "none" /\ P.mesh[i].map = which}

\* setProjection once the identifier has been accepted
setProjectionAccepted(P, projection, reserved) ==
  LET P1 == [P EXCEPT !.cur = projection, !.def = projection] IN
  IF ~(IsPresenting(P1) /\ P1.scene) THEN P1
  ELSE
    LET toRemove == MapIs(P1, "video")
        P2 == [P1 EXCEPT
                 !.children = @ \ toRemove,
                 !.mesh = [i \in MeshIds |->
                             IF i \in toRemove
                             THEN [P1.mesh[i] EXCEPT !.geomDisposed = TRUE,
                                                     !.matDisposed = TRUE]
                             ELSE P1.mesh[i]]]
        P3 == [P2 EXCEPT !.oldReleased =
                 \A i \in P.children :
                    P2.mesh[i].geomDisposed /\ P2.mesh[i].matDisposed]
        P4 == changeProjection_(P3, projection, reserved, MaxNest)
        P5 == IF P4.ms # 0 THEN [P4 EXCEPT !.children = @ \cup {P4.ms}] ELSE P4
    IN IF P4.threw THEN P4
       ELSE IF P5.fm THEN applyForceMonoProjection_(P5) ELSE P5

\* the error is logged but the early return is missing
setProjection_noReturn(P, projection, reserved) ==
  IF getInternalProjectionName(projection) = Undefined
  THEN setProjectionAccepted([P EXCEPT !.warned = TRUE], projection, reserved)
  ELSE setProjectionAccepted(P, projection, reserved)

setProjection(P, projection, reserved) ==
  IF getInternalProjectionName(projection) = Undefined
  THEN [P EXCEPT !.warned = TRUE]
  ELSE setProjectionAccepted(P, projection, reserved)

\* -------------------------------------------------------------------- reset
\* nothing in reset() removes the movie screens from the scene or disposes
\* of their geometry and material
reset(P) ==
  IF ~P.init THEN P
  ELSE LET cancelled == P.rafId = "pending" IN
       [P EXCEPT !.controls = NoControls,
                 !.hud = FALSE, !.hudFM = FALSE,
                 !.liveHUDs = IF P.hud THEN @ - 1 ELSE @,
                 !.hudOffset = EulerZero, !.dragging = NoDrag,
                 !.visible = FALSE, !.inXR = FALSE, !.hideTimeout = FALSE,
                 !.gallery = FALSE,
                 !.liveGalleries = IF P.gallery THEN @ - 1 ELSE @,
                 !.listeners = FALSE,
                 !.cur = P.def,
                 !.fm = FALSE,
                 !.xrLoop = IF P.useLoop /\ P.renderer THEN FALSE ELSE @,
                 !.raf = IF cancelled THEN @ - 1 ELSE @,
                 !.rafId = IF cancelled THEN "cancelled" ELSE @,
                 !.init = FALSE]

\* --------------------------------------------------------------------- init
\* the projections for which init() enables the left-eye layer on the camera
LeftEyeCameraProjections == {"360_LR", "360_TB", "180", "180_LR", "180_MONO", "EAC_LR"}

\* init() while an XR session is presenting: swap the texture, keep the meshes
initXR(P) ==
  LET swapped == MapIs(P, "video")
      P0 == [P EXCEPT !.tex = TRUE, !.mesh = ReplaceTexture(P, "video")]
      P1 == [P0 EXCEPT !.mesh = [i \in MeshIds |->
                                   IF i \in swapped
                                   THEN [P0.mesh[i] EXCEPT !.map = "video",
                                                          !.baseQuat = FALSE,
                                                          !.base = <<>>]
                                   ELSE P0.mesh[i]]]
  IN IF P1.fm THEN applyForceMonoProjection_(P1) ELSE P1

\* ------------------------------------------------------------ HUD visibility
\* VRHUD.autoHideDelay: options.autoHideDelay, or 10000 when the option is
\* undefined; initVRHUD_ passes no autoHideDelay to the constructor
autoHideDelay == 10000

\* VRHUD.show(force)
hudShow(P, force) ==
  IF ~P.inXR /\ ~force THEN P ELSE [P EXCEPT !.visible = TRUE]

\* VRHUD.hide()
hudHide(P) == [P EXCEPT !.visible = FALSE]

\* VRHUD.toggle()
hudToggle(P) == IF P.visible THEN hudHide(P) ELSE hudShow(P, FALSE)

\* VRHUD.resetAutoHideTimer(): the pending timeout is cleared and a new one
\* is set while the HUD is visible
resetAutoHideTimer(P) ==
  [P EXCEPT !.hideTimeout = P.visible /\ autoHideDelay > 0]

\* VRHUD.onSqueezeStart: the grip toggles the HUD
onSqueezeStart(P) ==
  IF P.visible THEN hudHide(P) ELSE resetAutoHideTimer(hudShow(P, TRUE))

\* VRHUD.onXRSessionStart / onXRSessionEnd
onXRSessionStart(P) == [P EXCEPT !.inXR = TRUE]

onXRSessionEnd(P) == hudHide([P EXCEPT !.inXR = FALSE])

\* setupHUDAutoHide_: one more closure, with a timer of its own, listens to
\* the player and to the canvas
setupHUDAutoHide_(P) == [P EXCEPT !.closures = @ + 1]

\* resetTimer of every closure of setupHUDAutoHide_
resetTimer(P) ==
  LET P1 == IF P.hud /\ ~P.visible THEN hudShow(P, FALSE) ELSE P
  IN [P1 EXCEPT !.hideTimer = P.closures]

\* the 'pause' listener of every closure of setupHUDAutoHide_
onPause(P) ==
  LET P1 == [P EXCEPT !.hideTimer = 0]
  IN IF P1.hud THEN hudShow(P1, FALSE) ELSE P1

\* this.vrHUD = new VRHUD(...) in initVRHUD_; a HUD the field referred to
\* before is not disposed of; showHUDOnStart defaults to true
initVRHUD_(P) ==
  LET P1 == [P EXCEPT !.hud = TRUE, !.hudFM = FALSE, !.liveHUDs = @ + 1,
                      !.hudOffset = EulerZero, !.dragging = NoDrag,
                      !.visible = FALSE, !.inXR = FALSE,
                      !.hideTimeout = FALSE]
      P2 == hudShow(P1, FALSE)
  IN IF P2.hudDelay > 0 THEN setupHUDAutoHide_(P2) ELSE P2

\* this.vrGallery = new VRGallery(...) in initVRGallery_
initVRGallery_(P) == [P EXCEPT !.gallery = TRUE, !.liveGalleries = @ + 1]

\* currentProjection_.indexOf('180') === 0
StartsWith180(p) == p \in {"180", "180_LR", "180_MONO", "180_TB"}

\* new OrbitOrientationContols(options): the azimuth limits are those of
\* the projection current at this moment
NewControls(P) ==
  [exists |-> TRUE, halfView |-> StartsWith180(P.cur),
   orientation |-> P.mobile, orientationOffset |-> EulerZero,
   lastAngle_ |-> NoAngle, fed |-> NothingFed]

\* the closure initializeControls of init(); enableVRHUD and enableVRGallery
\* default to true
initializeControls(P) ==
  LET P1 == IF ~P.controls.exists /\ P.cur # "SBS_MONO"
            THEN [P EXCEPT !.controls = NewControls(P)]
            ELSE P
      P2 == initVRGallery_(initVRHUD_(P1))
  IN IF P2.webxr
     THEN [P2 EXCEPT !.useLoop = TRUE, !.xrLoop = TRUE]
     ELSE [P2 EXCEPT !.useLoop = FALSE, !.raf = @ + 1, !.rafId = "pending"]

\* navigator.xr && navigator.xr.isSessionSupported: the browser has WebXR
hasWebXR == TRUE

\* init() outside an XR session: full reset and rebuild; hasPoster is
\* player.poster() && !player.hasStarted()
initFull(P, hasPoster, reserved) ==
  LET P1 == reset(P)
      P2 == [P1 EXCEPT
               !.camLayers = IF P1.cur \in LeftEyeCameraProjections
                             THEN LayersEnable(LayersDefault, 1)
                             ELSE LayersDefault,
               !.scene = TRUE,
               !.children = {},
               !.tex = TRUE,
               !.mesh = ReplaceTexture([P1 EXCEPT !.mesh = ReplaceTexture(P1, "video")],
                                       "poster"),
               !.poster = FALSE,
               !.usingPoster = FALSE,
               !.posterPending = @ \/ hasPoster,
               !.playingHook = @ \/ hasPoster]
      P3 == changeProjection_(P2, P2.cur, reserved, MaxNest)
      P4 == [P3 EXCEPT !.renderer = TRUE, !.xrEnabled = FALSE, !.xr = FALSE]
      P5 == IF hasWebXR THEN [P4 EXCEPT !.pending = @ + 1]
            ELSE initializeControls(P4)
  IN IF P3.threw THEN P3
     ELSE IF P3.cur = "NONE" THEN reset(P3)
     ELSE [P5 EXCEPT !.listeners = TRUE, !.init = TRUE]

\* corsErrors counts the CORS errors raised since the source was loaded
init(P, hasPoster, reserved) ==
  LET P0 == [P EXCEPT !.corsErrors = 0] IN
  IF IsPresenting(P0) THEN initXR(P0) ELSE initFull(P0, hasPoster, reserved)

\* ------------------------------------------------------------ HUD callbacks
\* switching off enables the eye layer without disableAll() before it
onForceMonoToggle_noDisableAll(P, enabled, reserved) ==
  LET P1 == [P EXCEPT !.fm = enabled] IN
  IF P1.msl # 0 /\ P1.msr # 0
  THEN IF enabled
       THEN [P1 EXCEPT !.mesh[P1.msl].layers = LayersEnable(LayersSet(1), 2),
                       !.mesh[P1.msr].layers = LayersDisableAll]
       ELSE [P1 EXCEPT !.mesh[P1.msl].layers = LayersEnable(@, 1),
                       !.mesh[P1.msr].layers = LayersEnable(@, 2)]
  ELSE IF P1.ms # 0
  THEN [P1 EXCEPT !.mesh[P1.ms].layers = LayersEnableAll]
  ELSE IF P1.cur = "SBS_MONO" /\ IsPresenting(P1)
  THEN setProjection(P1, "SBS_MONO", reserved)
  ELSE P1

\* onForceMonoToggle of initVRHUD_
onForceMonoToggle(P, enabled, reserved) ==
  LET P1 == [P EXCEPT !.fm = enabled] IN
  IF P1.msl # 0 /\ P1.msr # 0
  THEN IF enabled
       THEN [P1 EXCEPT !.mesh[P1.msl].layers = LayersEnable(LayersSet(1), 2),
                       !.mesh[P1.msr].layers = LayersDisableAll]
       ELSE [P1 EXCEPT !.mesh[P1.msl].layers = LayersEnable(LayersDisableAll, 1),
                       !.mesh[P1.msr].layers = LayersEnable(LayersDisableAll, 2)]
  ELSE IF P1.ms # 0
  THEN [P1 EXCEPT !.mesh[P1.ms].layers = LayersEnableAll]
  ELSE IF P1.cur = "SBS_MONO" /\ IsPresenting(P1)
  THEN setProjection(P1, "SBS_MONO", reserved)
  ELSE P1

\* offsetX, offsetY, offsetZ of onOrientationChange; the sine of undefined
\* is NaN
SBSPosition(euler) ==
  IF ~euler.defined THEN VectorNaN
  ELSE Vector3(NumScale(0 - distance, NumTimes(Sin(euler.y), Cos(euler.x))),
               NumScale(distance, Sin(euler.x)),
               NumScale(0 - distance, NumTimes(Cos(euler.y), Cos(euler.x))))

\* onOrientationChange of initVRHUD_ with the offset of the HUD: the
\* rotation of the meshes that sample the video or the poster, and the event
\* 'vr-orientation-change' it triggers
onOrientationChange(P) ==
  LET P1 == [P EXCEPT !.emitted.orientation = @ + 1]
      baseOf(m) == IF m.baseQuat THEN m.base ELSE m.quat
      moved == ({P.msl, P.msr} \cup (IF P.msl = 0 THEN {P.ms} ELSE {})) \ {0}
  IN
  IF P.cur = "SBS_MONO"
  THEN [P1 EXCEPT !.mesh = [i \in MeshIds |->
          IF i \in moved
          THEN [P.mesh[i] EXCEPT !.position = SBSPosition(P.hudOffset)]
          ELSE P.mesh[i]]]
  ELSE [P1 EXCEPT !.mesh = [i \in MeshIds |->
          IF /\ i \in P.children
             /\ P.mesh[i].mat # "none"
             /\ P.mesh[i].map # "none"
             /\ (P.mesh[i].map = "video" \/ (P.poster /\ P.mesh[i].map = "poster"))
          THEN [P.mesh[i] EXCEPT
                  !.baseQuat = TRUE,
                  !.base = baseOf(P.mesh[i]),
                  !.quat = QuatMultiply(baseOf(P.mesh[i]), SafeEuler(P.hudOffset))]
          ELSE P.mesh[i]]]

\* the poster callbacks registered by init()
posterLoaded(P) ==
  LET P0 == [P EXCEPT !.poster = TRUE, !.usingPoster = TRUE,
                      !.mesh = ReplaceTexture(P, "poster")] IN
  [P0 EXCEPT !.mesh = [i \in MeshIds |->
                         IF P.scene /\ i \in MapIs(P, "video")
                         THEN [P0.mesh[i] EXCEPT !.map = "poster"]
                         ELSE P0.mesh[i]]]

onPlaying(P) ==
  IF ~P.usingPoster THEN P
  ELSE [P EXCEPT !.usingPoster = FALSE,
                 !.mesh = [i \in MeshIds |->
                             IF i \in MapIs(P, "poster")
                             THEN [P.mesh[i] EXCEPT !.map = "video"]
                             ELSE P.mesh[i]]]

\* ------------------------------------------------------ orientation offset
\* OrbitOrientationControls.setOrientationOffset: a THREE.Euler is copied,
\* of any other object the components are read; nothing is clamped
controlsSetOrientationOffset(C, euler) ==
  [C EXCEPT !.orientationOffset = EulerOf(euler.x, euler.y, euler.z)]

\* OrbitOrientationControls.adjustOrientationOffset
adjustOrientationOffset(C, deltaPitch, deltaYaw) ==
  [C EXCEPT !.orientationOffset =
     EulerOf(ClampPitch(@.x + deltaPitch), @.y + deltaYaw, @.z)]

\* VRHUD.setOrientationOffset: this.orientationOffset.copy(euler).
\* Euler.copy reads _x, _y, _z and _order of its argument, which an object
\* literal does not have.
hudSetOrientationOffset(euler) ==
  IF euler.isEuler THEN EulerOf(euler.x, euler.y, euler.z) ELSE EulerUndefined

\* VR.setOrientationOffset
setOrientationOffset(P, offset) ==
  LET P1 == IF P.controls.exists
            THEN [P EXCEPT !.controls = controlsSetOrientationOffset(@, offset)]
            ELSE P
  IN IF P1.hud THEN [P1 EXCEPT !.hudOffset = hudSetOrientationOffset(offset)]
     ELSE P1

\* VR.resetOrientationOffset
resetOrientationOffset(P) ==
  LET P1 == IF P.controls.exists
            THEN [P EXCEPT !.controls.orientationOffset = EulerZero]
            ELSE P
  IN IF P1.hud
     THEN [P1 EXCEPT !.hudOffset =
             hudSetOrientationOffset(OffsetArg(0, 0, 0, FALSE))]
     ELSE P1

\* VR.recenter and OrbitOrientationControls.recenter: with sensors the yaw
\* of the offset becomes minus the yaw of the camera quaternion, which is
\* what the last update() left there; without them orbit.reset()
recenter(P) ==
  IF ~P.controls.exists THEN P
  ELSE IF P.controls.orientation
  THEN [P EXCEPT !.controls.orientationOffset.y = 0 - P.camYaw]
  ELSE [P EXCEPT !.sensorYaw = 0]

\* ----------------------------------------------------------- animation loop
\* the catch clause without its call of reset()
texImage2DFailed_noReset(P) ==
  [P EXCEPT !.paused = TRUE, !.corsErrors = @ + 1]

\* the catch clause of the texImage2D wrapper installed by init()
texImage2DFailed(P) ==
  [reset(P) EXCEPT !.paused = TRUE, !.corsErrors = @ + 1]

\* 2 * (1 + this.speed), with this.speed = 0.5
TwiceOnePlusSpeed == 3

\* update() without the assignment this.lastAngle_ = currentAngle at its end
feedOrbit_noStore(C, currentAngle) ==
  LET first == ~C.lastAngle_.defined
      last == IF first THEN currentAngle ELSE C.lastAngle_
      delta == AngleOf((last.y - currentAngle.y) * TwiceOnePlusSpeed,
                       (last.z - currentAngle.z) * TwiceOnePlusSpeed)
  IN [C EXCEPT
        !.lastAngle_ = IF first
                       THEN [defined |-> TRUE, y |-> currentAngle.y,
                             z |-> currentAngle.z]
                       ELSE @,
        !.fed = [updates |-> IF @.updates < 2 THEN @.updates + 1 ELSE 2,
                 read |-> currentAngle,
                 prevRead |-> IF first THEN currentAngle ELSE @.read,
                 firstRead |-> IF first THEN currentAngle ELSE @.firstRead,
                 delta |-> delta,
                 sum |-> AngleOf(@.sum.y + delta.y, @.sum.z + delta.z)]]

\* the sensor branch of update(): currentAngle is the reading of the device
\* orientation; the first update takes it as the last angle, every update
\* rotates the orbit by (last - current) * (1 + speed) of roll and of yaw
\* and stores the reading
feedOrbit(C, currentAngle) ==
  LET first == ~C.lastAngle_.defined
      last == IF first THEN currentAngle ELSE C.lastAngle_
      delta == AngleOf((last.y - currentAngle.y) * TwiceOnePlusSpeed,
                       (last.z - currentAngle.z) * TwiceOnePlusSpeed)
  IN [C EXCEPT
        !.lastAngle_ = [defined |-> TRUE, y |-> currentAngle.y,
                        z |-> currentAngle.z],
        !.fed = [updates |-> IF @.updates < 2 THEN @.updates + 1 ELSE 2,
                 read |-> currentAngle,
                 prevRead |-> IF first THEN currentAngle ELSE @.read,
                 firstRead |-> IF first THEN currentAngle ELSE @.firstRead,
                 delta |-> delta,
                 sum |-> AngleOf(@.sum.y + delta.y, @.sum.z + delta.z)]]

\* OrbitOrientationControls.update(): the camera takes the orientation of
\* the orbit, which follows the sensors (or the pointer) and now stands at
\* yaw; then the offset is multiplied in.  Only the angle about the
\* vertical axis is followed, and about one axis the angles add up.
controlsUpdate(P, yaw) ==
  IF ~P.controls.exists THEN P
  ELSE [P EXCEPT !.sensorYaw = yaw,
                 !.camYaw = yaw + P.controls.orientationOffset.y,
                 !.controls = IF @.orientation THEN feedOrbit(@, P.device)
                              ELSE @]

\* VRHUD.updateControllerDragging(), called by VRHUD.update() on every
\* frame: dPitch and dYaw are how far the controller has moved since the
\* start of the drag
updateControllerDragging(P, dPitch, dYaw) ==
  IF ~(P.hud /\ IsPresenting(P) /\ P.dragging.by = "controller") THEN P
  ELSE LET start == P.dragging.dragStartRotation IN
       onOrientationChange(
         [P EXCEPT !.hudOffset =
            IF start.defined
            THEN EulerOf(ClampPitch(start.x + dPitch), start.y + dYaw, 0)
            ELSE EulerUndefined])

\* animate_(): throws tells whether the upload of the video frame raises,
\* caught whether the renderer catches what the wrapper throws again
animate_(P, throws, caught, yaw, dPitch, dYaw) ==
  IF ~P.init THEN P
  ELSE LET P1 == updateControllerDragging(controlsUpdate(P, yaw), dPitch, dYaw)
           P2 == IF throws THEN texImage2DFailed(P1)
                 ELSE [P1 EXCEPT !.rendered = TRUE]
       IN IF throws /\ ~caught THEN P2
          ELSE IF ~P2.useLoop
          THEN [P2 EXCEPT !.raf = @ + 1, !.rafId = "pending"]
          ELSE P2

\* ------------------------------------------------------------------ actions
\* the new values of the variables after an operation that left the plugin
\* as Q; mesh objects nothing refers to any more are collected
Renumber(Q, i) ==
  IF i = 0 THEN 0 ELSE Cardinality({j \in LiveMeshes(Q) : j <= i})

Commit(Q, op, arg) ==
  /\ currentProjection_' = Q.cur
  /\ defaultProjection_' = Q.def
  /\ mediainfo' = Q.hint
  /\ initialized_' = Q.init
  /\ sceneExists' = Q.scene
  /\ children' = {Renumber(Q, i) : i \in Q.children}
  /\ mesh' = [n \in MeshIds |->
                IF \E i \in LiveMeshes(Q) : Renumber(Q, i) = n
                THEN Q.mesh[CHOOSE i \in LiveMeshes(Q) : Renumber(Q, i) = n]
                ELSE NoMesh]
  /\ movieScreen' = Renumber(Q, Q.ms)
  /\ movieScreenLeft' = Renumber(Q, Q.msl)
  /\ movieScreenRight' = Renumber(Q, Q.msr)
  /\ videoTexture' = Q.tex
  /\ posterTexture' = Q.poster
  /\ usingPoster' = Q.usingPoster
  /\ posterPending' = Q.posterPending
  /\ playingHook' = Q.playingHook
  /\ rendererExists' = Q.renderer
  /\ xrEnabled' = Q.xrEnabled
  /\ presenting' = Q.xr
  /\ webXRSupported_' = Q.webxr
  /\ pendingChecks' = Q.pending
  /\ cameraLayers' = Q.camLayers
  /\ forceMonoEnabled' = Q.fm
  /\ vrHUD' = Q.hud
  /\ hudForceMono' = Q.hudFM
  /\ controls3d' = Q.controls
  /\ vrGallery' = Q.gallery
  /\ liveHUDs' = Q.liveHUDs
  /\ liveGalleries' = Q.liveGalleries
  /\ useSetAnimationLoop_' = Q.useLoop
  /\ xrLoop' = Q.xrLoop
  /\ rafPending' = Q.raf
  /\ animationFrameId_' = Q.rafId
  /\ windowListeners' = Q.listeners
  /\ paused' = Q.paused
  /\ corsErrors' = Q.corsErrors
  /\ mobile' = Q.mobile
  /\ hudOrientationOffset' = Q.hudOffset
  /\ isDraggingOrientation' = Q.dragging
  /\ sensorYaw' = Q.sensorYaw
  /\ cameraYaw' = Q.camYaw
  /\ hudAutoHideDelay' = Q.hudDelay
  /\ isVisible' = Q.visible
  /\ isInXRSession' = Q.inXR
  /\ hideTimeout' = Q.hideTimeout
  /\ autoHideClosures' = Q.closures
  /\ hideTimer' = Q.hideTimer
  /\ deviceOrientation' = Q.device
  /\ videoSize' = Q.video
  /\ thumbnail' = thumbnail
  /\ rendered' = Q.rendered
  /\ emitted' = Q.emitted
  /\ before' = controls3d.orientationOffset
  /\ lastOp' = op
  /\ lastArg' = arg
  /\ warned' = Q.warned
  /\ lastBuild' = Q.lastBuild
  /\ built' = {Renumber(Q, i) : i \in Q.built \cap LiveMeshes(Q)}
  /\ nested' = Q.nested
  /\ threw' = Q.threw
  /\ sameObjects' = (Q.children = children)
  /\ oldReleased' = Q.oldReleased

\* room in the handle pools for what one operation can create
MeshRoom == Max(LiveMeshes(This)) + 2 <= MaxMeshes

\* the state after the constructor: setProjection(options.projection)
Constructed(option) ==
  [cur |-> Undefined, def |-> Undefined, hint |-> Undefined,
   init |-> FALSE, scene |-> FALSE, children |-> {},
   mesh |-> [i \in MeshIds |-> NoMesh], ms |-> 0, msl |-> 0, msr |-> 0,
   tex |-> FALSE, poster |-> FALSE, usingPoster |-> FALSE, posterPending |-> FALSE,
   playingHook |-> FALSE, renderer |-> FALSE, xrEnabled |-> FALSE,
   xr |-> FALSE, webxr |-> FALSE, pending |-> 0, camLayers |-> LayersDefault,
   fm |-> FALSE, hud |-> FALSE, hudFM |-> FALSE,
   controls |-> NoControls, gallery |-> FALSE,
   liveHUDs |-> 0, liveGalleries |-> 0,
   useLoop |-> FALSE, xrLoop |-> FALSE, raf |-> 0, rafId |-> "none",
   listeners |-> FALSE, paused |-> FALSE, corsErrors |-> 0, mobile |-> FALSE,
   hudOffset |-> EulerZero, dragging |-> NoDrag, sensorYaw |-> 0, camYaw |-> 0,
   hudDelay |-> 0, visible |-> FALSE, inXR |-> FALSE, hideTimeout |-> FALSE,
   closures |-> 0, hideTimer |-> 0, device |-> AngleOf(0, 0),
   video |-> DefaultFrame,
   warned |-> FALSE, lastBuild |-> NoBuild, built |-> {}, nested |-> 0,
   threw |-> FALSE, oldReleased |-> TRUE, rendered |-> FALSE,
   emitted |-> NoneEmitted]

InitWithDelay(options, delays) ==
  \E option \in options :
    LET Q == setProjection(Constructed(option), option, {}) IN
    /\ currentProjection_ = Q.cur
    /\ defaultProjection_ = Q.def
    /\ mediainfo = Undefined
    /\ initialized_ = FALSE
    /\ sceneExists = FALSE
    /\ children = {}
    /\ mesh = [i \in MeshIds |-> NoMesh]
    /\ movieScreen = 0
    /\ movieScreenLeft = 0
    /\ movieScreenRight = 0
    /\ videoTexture = FALSE
    /\ posterTexture = FALSE
    /\ usingPoster = FALSE
    /\ posterPending = FALSE
    /\ playingHook = FALSE
    /\ rendererExists = FALSE
    /\ xrEnabled = FALSE
    /\ presenting = FALSE
    /\ webXRSupported_ = FALSE
    /\ pendingChecks = 0
    /\ cameraLayers = LayersDefault
    /\ forceMonoEnabled = FALSE
    /\ vrHUD = FALSE
    /\ hudForceMono = FALSE
    /\ controls3d = NoControls
    /\ vrGallery = FALSE
    /\ liveHUDs = 0
    /\ liveGalleries = 0
    /\ useSetAnimationLoop_ = FALSE
    /\ xrLoop = FALSE
    /\ rafPending = 0
    /\ animationFrameId_ = "none"
    /\ windowListeners = FALSE
    /\ paused = FALSE
    /\ corsErrors = 0
    /\ hudOrientationOffset = EulerZero
    /\ isDraggingOrientation = NoDrag
    /\ sensorYaw = 0
    /\ cameraYaw = 0
    /\ hudAutoHideDelay \in delays
    /\ isVisible = FALSE
    /\ isInXRSession = FALSE
    /\ hideTimeout = FALSE
    /\ autoHideClosures = 0
    /\ hideTimer = 0
    /\ deviceOrientation = AngleOf(0, 0)
    /\ videoSize = DefaultFrame
    /\ thumbnail = NewThumbnail
    /\ rendered = FALSE
    /\ emitted = NoneEmitted
    /\ before = EulerZero
    /\ lastOp = "construct"
    /\ lastArg = option
    /\ warned = Q.warned
    /\ lastBuild = NoBuild
    /\ built = {}
    /\ nested = 0
    /\ threw = FALSE
    /\ sameObjects = TRUE
    /\ oldReleased = TRUE

\* the specifications about projections run the plugin with the option
\* hudAutoHideDelay: 0, under which setupHUDAutoHide_ installs nothing
InitWith(options) == InitWithDelay(options, {0})

\* the application sets player.mediainfo.projection for the next source
SetMediainfo(h) ==
  /\ h # mediainfo
  /\ Commit([This EXCEPT !.hint = h], "mediainfo", h)

\* 'loadedmetadata': init()
LoadedMetadata(hasPoster) ==
  /\ MeshRoom
  /\ IF IsPresenting(This) THEN ~hasPoster
     ELSE hasWebXR => pendingChecks < MaxPending
  /\ Commit(init(This, hasPoster, LiveMeshes(This)),
            IF IsPresenting(This) THEN "initXR" ELSE "init", currentProjection_)

\* the promise of navigator.xr.isSessionSupported settles
CapabilityResolved(supported) ==
  /\ pendingChecks > 0
  /\ liveHUDs < MaxLive /\ liveGalleries < MaxLive /\ rafPending < MaxLive
  /\ autoHideClosures < MaxLive
  /\ LET P1 == [This EXCEPT !.pending = @ - 1]
         P2 == IF supported /\ P1.renderer
               THEN [P1 EXCEPT !.webxr = TRUE, !.xrEnabled = TRUE]
               ELSE P1
     IN Commit(initializeControls(P2), "initializeControls", Undefined)

\* setProjection(projection), called by the page or by the projection menu
\* of the HUD (onProjectionChange)
SetProjection(p) ==
  /\ MeshRoom
  /\ Commit(setProjection(This, p, LiveMeshes(This)), "setProjection", p)

\* the force-mono button of the HUD is pressed
HudForceMonoToggle ==
  /\ vrHUD
  /\ MeshRoom
  /\ Commit(onForceMonoToggle([This EXCEPT !.hudFM = ~hudForceMono],
                              ~hudForceMono, LiveMeshes(This)),
            "forceMonoToggle", Undefined)

\* the HUD reports a new orientation offset
HudOrientationChange ==
  /\ vrHUD
  /\ sceneExists
  /\ Commit(onOrientationChange(This), "orientationChange", Undefined)

\* the poster image finishes loading, or fails to
PosterLoaded(ok) ==
  /\ posterPending
  /\ LET P1 == [This EXCEPT !.posterPending = FALSE] IN
     Commit(IF ok THEN posterLoaded(P1) ELSE P1, "posterLoaded", Undefined)

\* the player plays: the one-shot 'playing' handler registered with the
\* poster, and the resetTimer listeners of setupHUDAutoHide_
Playing ==
  /\ playingHook \/ autoHideClosures > 0
  /\ LET P1 == IF playingHook
               THEN onPlaying([This EXCEPT !.playingHook = FALSE])
               ELSE This
     IN Commit(IF P1.closures > 0 THEN resetTimer(P1) ELSE P1,
               "playing", Undefined)

\* the user enters / leaves the immersive session
EnterXR ==
  /\ initialized_ /\ rendererExists /\ xrEnabled /\ ~presenting
  /\ LET P1 == [This EXCEPT !.xr = TRUE]
     IN Commit(IF P1.hud THEN onXRSessionStart(P1) ELSE P1,
               "enterXR", Undefined)

ExitXR ==
  /\ presenting
  /\ LET P1 == [This EXCEPT !.xr = FALSE]
     IN Commit(IF P1.hud THEN onXRSessionEnd(P1) ELSE P1,
               "exitXR", Undefined)

\* public reset() / dispose()
Reset ==
  /\ initialized_
  /\ Commit(reset(This), "reset", Undefined)

\* a frame: the callback given to renderer.setAnimationLoop (viaXr) or one
\* given to requestAnimationFrame runs animate_; latest tells whether the
\* callback is the one animationFrameId_ names
AnimationFrame(viaXr, latest, throws, caught, yaw, dPitch, dYaw) ==
  /\ IF viaXr THEN xrLoop /\ ~latest
     ELSE /\ rafPending > 0
          /\ latest => animationFrameId_ = "pending"
          /\ (animationFrameId_ = "pending" /\ rafPending = 1) => latest
  /\ throws => videoTexture
  /\ caught => throws
  /\ isDraggingOrientation.dragStartRotation.y + dYaw \in Angles
  /\ emitted.orientation < MaxNotes
  /\ LET P0 == IF viaXr THEN This
               ELSE [This EXCEPT !.raf = @ - 1,
                                 !.rafId = IF latest THEN "fired" ELSE @]
         P1 == IF isDraggingOrientation.by = "none" THEN P0
               ELSE [P0 EXCEPT !.emitted = emitted]
         Q == animate_(P1, throws, caught, yaw, dPitch, dYaw)
     IN Commit(Q, IF throws /\ initialized_ THEN "uploadFailed" ELSE "animate",
               Undefined)

\* the viewer resumes playback
Resume ==
  /\ paused
  /\ Commit([This EXCEPT !.paused = FALSE], "play", Undefined)

\* player.vr().setOrientationOffset(offset)
SetOrientationOffset(offset) ==
  /\ controls3d.exists \/ vrHUD
  /\ Commit(setOrientationOffset(This, offset), "setOrientationOffset", Undefined)

\* player.vr().controls3d.adjustOrientationOffset(deltaPitch, deltaYaw)
AdjustOrientationOffset(deltaPitch, deltaYaw) ==
  /\ controls3d.exists
  /\ controls3d.orientationOffset.y + deltaYaw \in Angles
  /\ Commit([This EXCEPT !.controls =
               adjustOrientationOffset(@, deltaPitch, deltaYaw)],
            "adjustOrientationOffset", Undefined)

\* player.vr().resetOrientationOffset()
ResetOrientationOffset ==
  /\ controls3d.exists \/ vrHUD
  /\ Commit(resetOrientationOffset(This), "resetOrientationOffset", Undefined)

\* player.vr().recenter()
Recenter ==
  /\ controls3d.exists
  /\ 0 - cameraYaw \in Angles
  /\ Commit(recenter(This), "recenter", Undefined)

\* the pointer (handleMouseDown) or an XR controller (onSelectStart) takes
\* hold of the orientation handle of the HUD
HudDragStart(by) ==
  /\ vrHUD
  /\ isDraggingOrientation.by = "none"
  /\ by = "controller" => presenting
  /\ Commit([This EXCEPT !.dragging =
               [by |-> by, dragStartRotation |-> hudOrientationOffset]],
            "dragStart", Undefined)

\* handleMouseMove while the pointer holds the handle
HudMouseMove(dPitch, dYaw) ==
  /\ vrHUD
  /\ isDraggingOrientation.by = "mouse"
  /\ isDraggingOrientation.dragStartRotation.y + dYaw \in Angles
  /\ emitted.orientation < MaxNotes
  /\ LET start == isDraggingOrientation.dragStartRotation
         P1 == [This EXCEPT !.emitted = emitted,
                  !.hudOffset =
                    IF start.defined /\ @.defined
                    THEN EulerOf(ClampPitch(start.x + dPitch), start.y + dYaw, @.z)
                    ELSE EulerUndefined]
     IN Commit(onOrientationChange(P1), "dragMove", Undefined)

\* handleMouseUp / onSelectEnd: the gesture is over
HudDragEnd ==
  /\ vrHUD
  /\ isDraggingOrientation.by # "none"
  /\ Commit([This EXCEPT !.dragging = NoDrag, !.emitted = emitted],
            "dragEnd", Undefined)

\* the reset-orientation button of the HUD
HudResetOrientation ==
  /\ vrHUD
  /\ sceneExists
  /\ Commit(onOrientationChange([This EXCEPT !.hudOffset = EulerZero]),
            "hudResetOrientation", Undefined)

\* an entry of the projection menu of the HUD: onProjectionChange calls
\* setProjection and triggers 'vr-projection-change'
HudSelectProjection(p) ==
  /\ vrHUD
  /\ MeshRoom
  /\ Commit([setProjection(This, p, LiveMeshes(This))
               EXCEPT !.emitted.projection = @ + 1],
            "hudProjection", p)

\* the grip of an XR controller is squeezed
HudSqueeze ==
  /\ vrHUD /\ presenting
  /\ Commit(onSqueezeStart(This), "squeeze", Undefined)

\* the trigger of an XR controller is released: onSelectEnd
HudSelectEnd ==
  /\ vrHUD /\ presenting
  /\ Commit(resetAutoHideTimer(This), "selectEnd", Undefined)

\* the timeout set by resetAutoHideTimer expires
HudHideTimeout ==
  /\ vrHUD /\ hideTimeout
  /\ Commit(hudHide([This EXCEPT !.hideTimeout = FALSE]), "hideTimeout", Undefined)

\* mousemove or click on the canvas: resetTimer of setupHUDAutoHide_
CanvasActivity ==
  /\ autoHideClosures > 0
  /\ Commit(resetTimer(This), "resetTimer", Undefined)

\* the player pauses
Pause ==
  /\ autoHideClosures > 0
  /\ Commit(onPause(This), "pause", Undefined)

\* a timer set by resetTimer expires
HideTimerFires ==
  /\ hideTimer > 0
  /\ LET P1 == [This EXCEPT !.hideTimer = @ - 1]
     IN Commit(IF P1.hud THEN hudHide(P1) ELSE P1, "hideTimer", Undefined)

\* public showHUD() / hideHUD() / toggleHUD()
ShowHUD ==
  /\ vrHUD
  /\ Commit(hudShow(This, FALSE), "showHUD", Undefined)

HideHUD ==
  /\ vrHUD
  /\ Commit(hudHide(This), "hideHUD", Undefined)

ToggleHUD ==
  /\ vrHUD
  /\ Commit(hudToggle(This), "toggleHUD", Undefined)

\* a 'deviceorientation' event: DeviceOrientationControls keeps the reading
\* for the next update()
DeviceOrientation(y, z) ==
  /\ deviceOrientation # AngleOf(y, z)
  /\ Commit([This EXCEPT !.device = AngleOf(y, z)], "deviceorientation", Undefined)

\* the video element takes the frame size of the source it decodes
VideoSize(w, h) ==
  /\ videoSize # FrameOf(w, h)
  /\ Commit([This EXCEPT !.video = FrameOf(w, h)], "videoSize", Undefined)

\* ----------------------------------------------------------- specifications
\* scene management: projection changes, source changes, poster and
\* force-mono in and out of an XR session
SceneIds == {"360", "360_LR", "180_MONO", "EAC", "NONE", "BOGUS"}

Init == InitWith(SceneIds) /\ mobile = FALSE

Next ==
  \/ \E hasPoster \in BOOLEAN : LoadedMetadata(hasPoster)
  \/ CapabilityResolved(TRUE)
  \/ \E p \in SceneIds : SetProjection(p)
  \/ HudForceMonoToggle
  \/ HudOrientationChange
  \/ \E ok \in BOOLEAN : PosterLoaded(ok)
  \/ Playing
  \/ EnterXR
  \/ ExitXR

Spec == Init /\ [][Next]_vars

\* per-source projection: the option AUTO (or an unknown option) and a
\* sequence of sources with their player.mediainfo.projection
AutoOptions == {"AUTO", "BOGUS"}
AutoIds == {"AUTO", "360", "BOGUS", Undefined}

InitAuto == InitWith(AutoOptions) /\ mobile = FALSE

NextAuto ==
  \/ \E h \in MediaHints : SetMediainfo(h)
  \/ LoadedMetadata(FALSE)
  \/ CapabilityResolved(TRUE)
  \/ \E p \in AutoIds : SetProjection(p)
  \/ EnterXR
  \/ ExitXR
  \/ Reset

SpecAuto == InitAuto /\ [][NextAuto]_vars

\* the builder over every identifier, outside and inside an XR session
InitBuild == InitWith(Identifiers) /\ mobile = FALSE

NextBuild ==
  \/ LoadedMetadata(FALSE)
  \/ CapabilityResolved(TRUE)
  \/ EnterXR
  \/ \E p \in Identifiers : presenting /\ lastOp = "enterXR" /\ SetProjection(p)

SpecBuild == InitBuild /\ [][NextBuild]_vars

\* lifecycle: source loads, teardown, the capability check settling late,
\* frames and a frame whose texture upload fails
LifeIds == {"360", "180_MONO"}

InitLife == InitWith(LifeIds) /\ mobile = FALSE

NextLife ==
  \/ LoadedMetadata(FALSE)
  \/ \E supported \in BOOLEAN : CapabilityResolved(supported)
  \/ \E p \in LifeIds : SetProjection(p)
  \/ \E viaXr, latest, throws, caught \in BOOLEAN :
       AnimationFrame(viaXr, latest, throws, caught, 0, 0, 0)
  \/ Resume
  \/ EnterXR
  \/ ExitXR
  \/ Reset

SpecLife == InitLife /\ [][NextLife]_vars

\* force-mono: stereo and mono sources, the HUD toggle, projection and
\* source changes in and out of an XR session
MonoIds == {"360", "360_LR", "180_MONO", "EAC_LR"}

InitMono == InitWith(MonoIds) /\ mobile = FALSE

NextMono ==
  \/ LoadedMetadata(FALSE)
  \/ CapabilityResolved(TRUE)
  \/ \E p \in MonoIds : SetProjection(p)
  \/ HudForceMonoToggle
  \/ EnterXR
  \/ ExitXR

SpecMono == InitMono /\ [][NextMono]_vars

\* orientation: the offset set by the page and by the HUD, recentring, and
\* the notifications; on a desktop and on a device with orientation sensors
OrientIds == {"360", "360_LR"}
OffsetInputs ==
  {OffsetArg(x, y, 0, isEuler) : x \in {0, MaxAngle}, y \in {0, 1},
                                isEuler \in BOOLEAN}
Steps == {0, 1}

InitOrient == InitWith({"360"}) /\ mobile \in BOOLEAN

NextOrient ==
  \/ LoadedMetadata(FALSE)
  \/ CapabilityResolved(TRUE)
  \/ \E yaw \in Steps : AnimationFrame(TRUE, FALSE, FALSE, FALSE, yaw, 0, 0)
  \/ \E offset \in OffsetInputs : SetOrientationOffset(offset)
  \/ \E deltaPitch \in {0, MaxAngle}, deltaYaw \in Steps :
       AdjustOrientationOffset(deltaPitch, deltaYaw)
  \/ ResetOrientationOffset
  \/ Recenter
  \/ HudResetOrientation

SpecOrient == InitOrient /\ [][NextOrient]_vars

\* notifications: projection and orientation changes made by the page and
\* through the HUD, with drags by pointer and by XR controller
InitNotify == InitWith({"360"}) /\ mobile = FALSE

NextNotify ==
  \/ LoadedMetadata(FALSE)
  \/ CapabilityResolved(TRUE)
  \/ EnterXR
  \/ \E dYaw \in Steps :
       AnimationFrame(TRUE, FALSE, FALSE, FALSE, 0, 0, dYaw)
  \/ \E p \in OrientIds : SetProjection(p)
  \/ \E p \in OrientIds : HudSelectProjection(p)
  \/ SetOrientationOffset(OffsetArg(0, 1, 0, TRUE))
  \/ ResetOrientationOffset
  \/ \E by \in {"mouse", "controller"} : HudDragStart(by)
  \/ \E dYaw \in Steps : HudMouseMove(0, dYaw)
  \/ HudDragEnd
  \/ HudResetOrientation

SpecNotify == InitNotify /\ [][NextNotify]_vars

\* teardown: nothing but init(), reset() and the capability check settling,
\* in every order
NextTeardown ==
  \/ \E hasPoster \in BOOLEAN : LoadedMetadata(hasPoster)
  \/ \E supported \in BOOLEAN : CapabilityResolved(supported)
  \/ Reset

SpecTeardown == InitLife /\ [][NextTeardown]_vars

\* HUD visibility: the grip, the timers and the public show / hide / toggle,
\* with auto-hide disabled and with the default delay
HudDelays == {0, 5000}

InitHud == InitWithDelay({"360"}, HudDelays) /\ mobile = FALSE

NextHud ==
  \/ LoadedMetadata(FALSE)
  \/ CapabilityResolved(TRUE)
  \/ EnterXR
  \/ ExitXR
  \/ Reset
  \/ HudSqueeze
  \/ HudSelectEnd
  \/ HudHideTimeout
  \/ Playing
  \/ CanvasActivity
  \/ Pause
  \/ HideTimerFires
  \/ ShowHUD
  \/ HideHUD
  \/ ToggleHUD

SpecHud == InitHud /\ [][NextHud]_vars


\* orientation sensors: a device whose readings change between the frames,
\* with controls that are torn down and made again
SensorAngles == {0 - MaxAngle, 0, 1}

InitSensor == InitWith({"360"}) /\ mobile = TRUE

NextSensor ==
  \/ LoadedMetadata(FALSE)
  \/ CapabilityResolved(TRUE)
  \/ \E y \in {0, 1}, z \in SensorAngles : DeviceOrientation(y, z)
  \/ AnimationFrame(TRUE, FALSE, FALSE, FALSE, 0, 0, 0)

SpecSensor == InitSensor /\ [][NextSensor]_vars

\* the flat layout: SBS_MONO from the start or chosen in the HUD during an
\* XR session, with the offset set by the page and by drags of the HUD
FlatIds == {"SBS_MONO", "360"}

InitFlat == InitWith(FlatIds) /\ mobile = FALSE

\* the metadata of the one source of the session arrives
FirstLoadedMetadata ==
  /\ ~initialized_
  /\ LoadedMetadata(FALSE)

NextFlat ==
  \/ FirstLoadedMetadata
  \/ CapabilityResolved(TRUE)
  \/ EnterXR
  \/ HudSelectProjection("SBS_MONO")
  \/ SetOrientationOffset(OffsetArg(0, HalfPi, 0, TRUE))
  \/ ResetOrientationOffset
  \/ HudDragStart("mouse")
  \/ \E dPitch \in Steps, dYaw \in {0, HalfPi} : HudMouseMove(dPitch, dYaw)
  \/ HudDragEnd
  \/ HudResetOrientation

SpecFlat == InitFlat /\ [][NextFlat]_vars

\* geometry: every kind that has a branch of its own, built from frames of
\* several sizes, outside and inside an XR session
BuiltKinds ==
  {"360", "360_LR", "360_TB", "360_CUBE", "180", "180_LR", "180_MONO",
   "EAC", "EAC_LR", "SBS_MONO"}
FrameWidths == {0, 3840}
FrameHeights == {0, 2, 4, 2160}

InitUV == InitWith(BuiltKinds) /\ mobile = FALSE

NextUV ==
  \/ \E w \in FrameWidths, h \in FrameHeights : VideoSize(w, h)
  \/ LoadedMetadata(FALSE)
  \/ CapabilityResolved(TRUE)
  \/ EnterXR
  \/ \E p \in {"EAC_LR", "SBS_MONO"} : presenting /\ SetProjection(p)

SpecUV == InitUV /\ [][NextUV]_vars

\* ------------------------------------------------ gallery thumbnail loader
\* A step of the gallery, which leaves the plugin as it is.
GalleryStep(G) ==
  /\ G # thumbnail
  /\ thumbnail' = G
  /\ UNCHANGED pluginVars

\* the requests counted so far are below the bound of the model
Counting == thumbnail.attempts < MaxAttempts

GalleryShow ==
  /\ Counting
  /\ GalleryStep(galleryShow(thumbnail))
GalleryHide ==
  /\ Counting
  /\ GalleryStep(galleryHide(thumbnail))
GalleryUpdate ==
  /\ Counting
  /\ GalleryStep(galleryUpdate(thumbnail))
GalleryScroll(delta) ==
  /\ Counting
  /\ GalleryStep(handleScroll(thumbnail, delta))
GalleryScrollTimer ==
  /\ Counting
  /\ thumbnail.scrollDebounceTimer
  /\ GalleryStep(scrollDebounced(thumbnail))
GallerySetMediaItems ==
  /\ Counting
  /\ GalleryStep(setMediaItems(thumbnail))
ThumbnailFails ==
  /\ Counting
  /\ thumbnail.loading
  /\ GalleryStep(loadFailed_(thumbnail))
ThumbnailLoads ==
  /\ Counting
  /\ thumbnail.loading
  /\ GalleryStep(loadSucceeded_(thumbnail))
TimePasses(dt) ==
  /\ Counting
  /\ GalleryStep(elapse(thumbnail, dt))

\* A gallery with one item, shown, hidden, scrolled and rendered while its
\* thumbnail loads or fails to load.
InitGallery == InitWith({"360"}) /\ mobile = FALSE

NextGallery ==
  \/ GalleryShow
  \/ GalleryHide
  \/ GalleryUpdate
  \/ \E delta \in {0 - 1, 1} : GalleryScroll(delta)
  \/ GalleryScrollTimer
  \/ GallerySetMediaItems
  \/ ThumbnailFails
  \/ ThumbnailLoads
  \/ \E dt \in Elapses : TimePasses(dt)

SpecGallery == InitGallery /\ [][NextGallery]_vars

\* ------------------------------------------------------------------- claims
MonoKinds == {"360", "360_CUBE", "180_MONO", "EAC"}
StereoKinds == {"360_LR", "360_TB", "180", "180_LR", "180_TB", "EAC_LR"}

\* the meshes on the scene are one mono surface / one left-right pair
OneMono(ch) == Cardinality(ch) = 1 /\ \A i \in ch : mesh[i].eye = "mono"
OnePair(ch) == Cardinality(ch) = 2 /\ {mesh[i].eye : i \in ch} = {"left", "right"}

\* the surface set on the scene is the set a build of `kind` yields
SetFor(kind, ch) ==
  CASE kind \in MonoKinds -> OneMono(ch)
    [] kind \in StereoKinds -> OnePair(ch)
    [] kind = "SBS_MONO" -> IF presenting THEN OnePair(ch) ELSE OneMono(ch)
    [] OTHER -> ch = {}

\* the last operation built a projection (init outside XR, or setProjection
\* during an XR session) and ran to its end
Rebuilt == lastOp \in {"init", "setProjection"} /\ lastBuild.kind # Undefined /\ ~threw

\* the texture a material samples: map, or the uniform of the EAC shader
TexRef(m) == IF m.mat = "shader" THEN m.mapped ELSE m.map

\* the left/right pair is on the scene
PairAttached ==
  /\ movieScreenLeft # 0 /\ movieScreenRight # 0
  /\ {movieScreenLeft, movieScreenRight} \subseteq children

\* left surface seen by both eyes, right surface by neither
ForceMonoMasks ==
  /\ VisibleToLeft(mesh[movieScreenLeft].layers)
  /\ VisibleToRight(mesh[movieScreenLeft].layers)
  /\ ~VisibleToLeft(mesh[movieScreenRight].layers)
  /\ ~VisibleToRight(mesh[movieScreenRight].layers)

\* C1: after every completed init(), every projection change during an XR
\* session and every source change, exactly one surface set is on the scene:
\* the one just built for the current kind (one mesh, one pair, or none for
\* NONE) and no mesh of an earlier set.
C1_ExactlyOneSurfaceSet ==
  /\ Rebuilt => (children = built /\ SetFor(lastBuild.kind, children))
  /\ lastOp = "initXR" => (OneMono(children) \/ OnePair(children))

\* C2: when setProjection(p) with a valid p returns on an initialized plugin,
\* the current projection is p and the surface set on the scene is the one
\* built for p, in and out of an XR session.
C2_SetProjectionTakesEffect ==
  (/\ lastOp = "setProjection"
   /\ getInternalProjectionName(lastArg) \notin {Undefined, "AUTO"}
   /\ initialized_ /\ sceneExists /\ ~threw)
  => /\ getInternalProjectionName(currentProjection_) = getInternalProjectionName(lastArg)
     /\ SetFor(getInternalProjectionName(lastArg), children)
     /\ \A i \in children : mesh[i].kind = getInternalProjectionName(lastArg)

\* C3: while force-mono is enabled during an XR session, the left surface of
\* a pair is visible to both eyes and the right surface to neither; a single
\* mono surface stays visible to both eyes.
C3_ForceMonoHidesRight ==
  (presenting /\ forceMonoEnabled)
  => /\ PairAttached => ForceMonoMasks
     /\ \A i \in children :
          mesh[i].eye = "mono" =>
            VisibleToLeft(mesh[i].layers) /\ VisibleToRight(mesh[i].layers)

\* C4: after a projection change or a source change made during an XR session
\* with force-mono enabled, the force-mono masks are in effect on the
\* resulting pair.
C4_ForceMonoPersists ==
  (/\ lastOp \in {"setProjection", "initXR"}
   /\ presenting /\ forceMonoEnabled /\ ~threw /\ ~warned
   /\ PairAttached)
  => ForceMonoMasks

\* what a build created: one surface both eyes see / a left-only and a
\* right-only surface
MonoBuild(b) ==
  /\ Cardinality(b.surfaces) = 1
  /\ \A x \in b.surfaces :
       x.eye = "mono" /\ VisibleToLeft(x.layers) /\ VisibleToRight(x.layers)

StereoBuild(b) ==
  /\ Cardinality(b.surfaces) = 2
  /\ \E l, r \in b.surfaces :
       /\ l.eye = "left" /\ VisibleToLeft(l.layers) /\ ~VisibleToRight(l.layers)
       /\ r.eye = "right" /\ VisibleToRight(r.layers) /\ ~VisibleToLeft(r.layers)

\* C5: a build of an accepted kind other than NONE and AUTO yields one
\* surface seen by both eyes (mono kinds, SBS_MONO outside XR) or a left
\* surface seen by the left eye only and a right surface seen by the right
\* eye only (stereo kinds, SBS_MONO during XR).
C5_BuildYieldsOneOrTwo ==
  /\ lastBuild.kind \in MonoKinds => MonoBuild(lastBuild)
  /\ lastBuild.kind \in StereoKinds => StereoBuild(lastBuild)
  /\ lastBuild.kind = "SBS_MONO" =>
       IF lastBuild.xr THEN StereoBuild(lastBuild) ELSE MonoBuild(lastBuild)

\* C6: on a projection change (setProjection during an XR session) the
\* geometry and the material of every surface of the old set have been
\* disposed before the new surfaces are created.
C6_OldSurfacesDisposed ==
  (lastOp = "setProjection" /\ lastBuild.kind # Undefined) => oldReleased

\* setProjection / changeProjection_ was given an unrecognized identifier
UnknownToSetProjection ==
  lastOp = "setProjection" /\ getInternalProjectionName(lastArg) = Undefined

UnknownToBuild ==
  lastBuild.kind # Undefined /\ getInternalProjectionName(lastBuild.arg) = Undefined

NamedByMediainfo ==
  IF getInternalProjectionName(mediainfo) \in {Undefined, "AUTO"}
  THEN "NONE"
  ELSE getInternalProjectionName(mediainfo)

\* C9: with the option AUTO, a source load outside an XR session builds the
\* projection that player.mediainfo.projection names at that load (NONE when
\* it names none).
C9_AutoFollowsEachSource ==
  (lastOp = "init" /\ defaultProjection_ = "AUTO" /\ ~threw)
  => lastBuild.kind = NamedByMediainfo

\* C10: a source change during an XR session keeps the same mesh objects on
\* the scene, leaves every one of them sampling the new video texture and
\* clears its cached base orientation.
C10_SourceChangeSwapsTexture ==
  lastOp = "initXR"
  => /\ sameObjects
     /\ \A i \in children : TexRef(mesh[i]) = "video" /\ ~mesh[i].baseQuat

\* live instances of the orientation controls, and registrations of
\* animate_ (the slot of renderer.setAnimationLoop and every pending
\* requestAnimationFrame callback)
LiveControls == IF controls3d.exists THEN 1 ELSE 0
LoopRegistrations == (IF xrLoop THEN 1 ELSE 0) + rafPending

\* C11: under every interleaving of init(), reset() and the settling of the
\* capability check there is at most one live orientation-controls object,
\* HUD, gallery and animation-loop registration, and none of them while the
\* plugin is not initialized.
C11_OneCoreOnlyWhileInitialized ==
  /\ LiveControls <= 1 /\ liveHUDs <= 1 /\ liveGalleries <= 1
  /\ LoopRegistrations <= 1
  /\ ~initialized_ =>
       /\ LiveControls = 0 /\ liveHUDs = 0 /\ liveGalleries = 0
       /\ LoopRegistrations = 0

\* C12: after reset() or dispose() of an initialized plugin every screen
\* surface the plugin owns is off the scene with its geometry and material
\* disposed of, the window and orientation listeners of init() are removed,
\* and no animation loop or frame callback remains registered.
C12_ResetReleasesEverything ==
  lastOp = "reset" =>
    /\ children = {}
    /\ \A i \in LiveMeshes(This) : mesh[i].geomDisposed /\ mesh[i].matDisposed
    /\ ~windowListeners
    /\ ~controls3d.exists
    /\ LoopRegistrations = 0

\* the eye mask of the data model that a layer mask stands for
EyeMask(l) ==
  IF VisibleToLeft(l) /\ VisibleToRight(l) THEN "BOTH"
  ELSE IF VisibleToLeft(l) THEN "LEFT_ONLY"
  ELSE IF VisibleToRight(l) THEN "RIGHT_ONLY"
  ELSE "NEITHER"

\* the eye masks a fresh build of the projection gives its surfaces
FreshMasks(kind) ==
  LET B == changeProjection_(
             [This EXCEPT !.scene = TRUE, !.children = {}, !.ms = 0, !.msl = 0,
                          !.msr = 0, !.mesh = [i \in MeshIds |-> NoMesh]],
             kind, {}, MaxNest)
  IN {[eye |-> B.mesh[i].eye, mask |-> EyeMask(B.mesh[i].layers)] : i \in B.built}

\* the surfaces the plugin holds and their eye masks after an operation
\* that left the plugin as Q
Screens(Q) == {Q.ms, Q.msl, Q.msr} \ {0}
MasksOf(Q) ==
  {[eye |-> Q.mesh[i].eye, mask |-> EyeMask(Q.mesh[i].layers)] : i \in Screens(Q)}

\* the surfaces held are one set, built for one projection
BuiltSet ==
  /\ Screens(This) # {}
  /\ Screens(This) \subseteq children
  /\ Cardinality({mesh[i].kind : i \in Screens(This)}) = 1
  /\ \A i \in Screens(This) : mesh[i].mat # "none"
BuiltKind == mesh[CHOOSE i \in Screens(This) : TRUE].kind

\* force-mono switched on and off again through the HUD toggle
ToggledOnOff ==
  onForceMonoToggle(onForceMonoToggle(This, TRUE, LiveMeshes(This)),
                    FALSE, LiveMeshes(This))

\* ... and through applyForceMonoProjection_
ReappliedOnOff ==
  applyForceMonoProjection_(
    [applyForceMonoProjection_([This EXCEPT !.fm = TRUE]) EXCEPT !.fm = FALSE])

\* C13: switching force-mono on and then off on any built surface set leaves
\* every surface with the eye mask a fresh build of the same projection
\* assigns, through the HUD toggle and through the reapply path (which acts
\* during an XR session only).
C13_ForceMonoRoundTrip ==
  BuiltSet =>
    /\ MasksOf(ToggledOnOff) = FreshMasks(BuiltKind)
    /\ IsPresenting(This) => MasksOf(ReappliedOnOff) = FreshMasks(BuiltKind)

C13_Witness ==
  /\ BuiltSet
  /\ presenting
  /\ lastOp = "forceMonoToggle"
  /\ ~forceMonoEnabled
  /\ movieScreenLeft # 0 /\ movieScreenRight # 0
  /\ MasksOf(This) = FreshMasks(BuiltKind)

\* applyForceMonoProjection_ once and twice with the flag f
AppliedOnce(f) == applyForceMonoProjection_([This EXCEPT !.fm = f])
AppliedTwice(f) == applyForceMonoProjection_(AppliedOnce(f))

\* C14: applying the force-mono assignment twice with the same flag leaves
\* the layer masks that applying it once leaves, for both values of the flag
\* and for single and paired surface sets.
C14_ForceMonoIdempotent ==
  \A f \in BOOLEAN : AppliedTwice(f).mesh = AppliedOnce(f).mesh

C14_Witness ==
  /\ presenting
  /\ forceMonoEnabled
  /\ lastOp \in {"setProjection", "initXR"}
  /\ movieScreenLeft # 0 /\ movieScreenRight # 0
  /\ {movieScreenLeft, movieScreenRight} \subseteq children
  /\ AppliedOnce(TRUE).mesh = mesh
  /\ AppliedOnce(FALSE).mesh # mesh

\* the external changes of projection and of orientation offset
ProjectionChanged == lastOp \in {"setProjection", "hudProjection"} /\ ~warned
OrientationChanged ==
  lastOp \in {"setOrientationOffset", "resetOrientationOffset", "dragEnd",
              "hudResetOrientation"}

\* C15: each external projection change (a call of setProjection or a choice
\* in the HUD menu) has emitted exactly one projection-changed notification;
\* each external change of the orientation offset (setOrientationOffset,
\* resetOrientationOffset, one drag gesture of the HUD, one press of its
\* reset button) has emitted exactly one orientation-changed notification;
\* a frame outside a gesture emits none.
C15_OneNotificationPerChange ==
  /\ ProjectionChanged => emitted.projection = 1
  /\ OrientationChanged => emitted.orientation = 1
  /\ (lastOp = "animate" /\ isDraggingOrientation.by = "none") =>
       emitted = NoneEmitted

\* the pitch of an offset lies within [-pi/2, pi/2]
PitchInRange(e) == e.defined => (0 - HalfPi <= e.x /\ e.x <= HalfPi)

\* C17: in every reachable state, after any sequence of setOrientationOffset,
\* adjustOrientationOffset, resetOrientationOffset, recenter and HUD
\* operations with any arguments, the pitch of the orientation offset of the
\* controls and of the HUD lies within [-pi/2, pi/2].
C17_PitchClamped ==
  /\ controls3d.exists => PitchInRange(controls3d.orientationOffset)
  /\ vrHUD => PitchInRange(hudOrientationOffset)

\* C18: resetOrientationOffset() leaves the offset (0, 0, 0) in the controls
\* and in the HUD whatever it was before, and an update() of the controls
\* whose offset is (0, 0, 0) turns the camera by nothing.
C18_ResetGivesIdentity ==
  /\ lastOp = "resetOrientationOffset" =>
       /\ controls3d.exists => controls3d.orientationOffset = EulerZero
       /\ vrHUD => hudOrientationOffset = EulerZero
  /\ (lastOp = "animate" /\ initialized_ /\ controls3d.exists
        /\ controls3d.orientationOffset = EulerZero) =>
       cameraYaw = sensorYaw

\* C19: recenter() on sensor-driven controls changes only the yaw of the
\* offset, to minus the current sensor-derived angle, whatever the offset
\* was before; on controls without sensors it resets the orbit and leaves
\* the offset as it was.
C19_RecenterIgnoresPriorOffset ==
  lastOp = "recenter" =>
    IF controls3d.orientation
    THEN /\ controls3d.orientationOffset.y = 0 - sensorYaw
         /\ controls3d.orientationOffset.x = before.x
         /\ controls3d.orientationOffset.z = before.z
    ELSE /\ controls3d.orientationOffset = before
         /\ sensorYaw = 0

\* the surfaces on the scene are those of the current projection
CurrentIsBuilt ==
  /\ children # {}
  /\ \A i \in children : mesh[i].kind = currentProjection_

\* C20: whenever the current projection is a half-view kind (its identifier
\* begins with 180) the orbit azimuth of the controls is limited to
\* [-pi/4, pi/4], and it is unlimited for full-view kinds; also after a
\* setProjection made when the controls already exist.
C20_AzimuthLimitFollowsProjection ==
  (controls3d.exists /\ initialized_ /\ CurrentIsBuilt) =>
    (controls3d.halfView <=> StartsWith180(currentProjection_))

HudHidden == isVisible /\ ~isVisible'
ExplicitHides ==
  {"hideHUD", "toggleHUD", "squeeze", "exitXR", "reset", "init",
   "initializeControls"}
\* C21: with the option hudAutoHideDelay = 0 a shown HUD is never hidden by a
\* timer: it stays visible until an explicit hide, a toggle, a grip squeeze,
\* the end of the XR session or the teardown of the HUD
C21_NoTimerHideWhenDisabled ==
  [][(hudAutoHideDelay = 0 /\ HudHidden) => lastOp' \in ExplicitHides]_vars

\* the layers of the camera that renders outside an XR session meet those
\* of a surface on the scene
CameraSeesSurface == \E i \in children : mesh[i].layers \cap cameraLayers # {}
\* C22: once init() has completed with a projection that builds a left/right
\* pair (named directly or resolved through AUTO), and after any later
\* projection change, the camera used outside XR has the left-eye layer
\* enabled and at least one attached surface is visible to it.
C22_CameraSeesPair ==
  (initialized_ /\ sceneExists /\ PairAttached)
    => (1 \in cameraLayers /\ CameraSeesSurface)

\* the rotation a surface has when the offset of the HUD is composed once with
\* the rotation its build gave it
OffsetRotation == QuatMultiply(<<>>, SafeEuler(hudOrientationOffset))
NonFlatSurfaces == {i \in children : mesh[i].kind \notin {"SBS_MONO", "none"}}
\* C23: for the projections that are not flat, the rotation of every surface
\* on the scene is the rotation its build gave it composed once with the
\* current orientation offset of the HUD, after HUD drags, presses of reset
\* orientation, setOrientationOffset and resetOrientationOffset calls, source
\* changes and projection rebuilds.
C23_RotationIsBaseTimesOffset ==
  hudOrientationOffset.defined =>
    \A i \in NonFlatSurfaces : mesh[i].quat = OffsetRotation

\* the controls follow the sensors and have been updated
SensorFed == controls3d.exists /\ controls3d.orientation /\ controls3d.fed.updates > 0
Scaled(a, b) == AngleOf((a.y - b.y) * TwiceOnePlusSpeed, (a.z - b.z) * TwiceOnePlusSpeed)
\* C24: with an active sensor the first update() of a controls object feeds
\* the orbit a zero delta whatever the reading is, every later update() feeds
\* (previous reading - current reading) * (1 + speed) of yaw and of roll and
\* stores the current reading as the last angle, so that the deltas fed so
\* far sum to (first reading - latest reading) * (1 + speed).
C24_SensorDeltasTelescope ==
  SensorFed =>
    LET f == controls3d.fed IN
    /\ f.updates = 1 => f.delta = AngleOf(0, 0)
    /\ f.delta = Scaled(f.prevRead, f.read)
    /\ controls3d.lastAngle_ = [defined |-> TRUE, y |-> f.read.y, z |-> f.read.z]
    /\ f.sum = Scaled(f.firstRead, f.read)

\* a later update has fed a delta that is not zero, after a first reading
\* that was not zero
C24_Witness ==
  /\ SensorFed
  /\ controls3d.fed.updates = 2
  /\ controls3d.fed.firstRead.z # 0
  /\ controls3d.fed.delta.z # 0
  /\ controls3d.fed.sum.z # controls3d.fed.delta.z

\* the operations that change the orientation offset; the flat surfaces on
\* the scene; the squared length of a vector
OffsetOps ==
  {"setOrientationOffset", "resetOrientationOffset", "dragMove",
   "hudResetOrientation", "orientationChange"}
FlatSurfaces == {i \in children : mesh[i].kind = "SBS_MONO"}
NumPlus(m, n) == Num(m.a + n.a, m.b + n.b)
LengthSq(v) ==
  NumPlus(NumPlus(NumTimes(v.x, v.x), NumTimes(v.y, v.y)), NumTimes(v.z, v.z))
AtOffsetPosition ==
  \A i \in FlatSurfaces :
    /\ mesh[i].position = SBSPosition(hudOrientationOffset)
    /\ mesh[i].position.finite
    /\ LengthSq(mesh[i].position) = Num(2 * distance * distance, 0)
\* C25: under SBS_MONO a change of the orientation offset (pitch, yaw) does
\* not rotate the camera, and it leaves every flat surface on the scene, the
\* left and the right one or the single one, at
\* (-sin(yaw)cos(pitch), sin(pitch), -cos(yaw)cos(pitch)) * distance, at the
\* distance `distance` from the viewer.
C25_FlatOffsetMovesSurfaces ==
  [][(currentProjection_ = "SBS_MONO" /\ lastOp' \in OffsetOps)
       => /\ controls3d'.orientationOffset = controls3d.orientationOffset
          /\ AtOffsetPosition']_vars

\* a number within [0, 1]; the surfaces on the scene whose geometry was
\* computed from a frame of positive size
InUnit(a) == IsFinite(a) /\ ~RatLess(a, Whole(0)) /\ ~RatGreater(a, Whole(1))
FromPositiveFrame == {i \in children : mesh[i].frame.w > 0 /\ mesh[i].frame.h > 0}
\* C26: for every kind other than NONE and AUTO and every positive frame
\* size, every UV coordinate the build writes lies within [0, 1] x [0, 1]:
\* the halves of LR and TB, the corners of the cube atlas and the corrected
\* corners of EAC.
C26_UVsInUnitSquare ==
  \A i \in FromPositiveFrame :
    \A uv \in WrittenUVs(mesh[i].kind, mesh[i].eye, mesh[i].frame) :
      InUnit(uv.u) /\ InUnit(uv.v)

\* the pair on the scene was computed from one frame of positive size; what
\* its two surfaces sample; the margin the continuity correction may take
PositivePair ==
  /\ PairAttached
  /\ {movieScreenLeft, movieScreenRight} \subseteq FromPositiveFrame
  /\ mesh[movieScreenLeft].eye = "left" /\ mesh[movieScreenRight].eye = "right"
  /\ mesh[movieScreenLeft].kind = mesh[movieScreenRight].kind
  /\ mesh[movieScreenLeft].frame = mesh[movieScreenRight].frame
LeftSamples ==
  SampledUVs(mesh[movieScreenLeft].kind, "left", mesh[movieScreenLeft].frame)
RightSamples ==
  SampledUVs(mesh[movieScreenRight].kind, "right", mesh[movieScreenRight].frame)
Margin ==
  IF mesh[movieScreenLeft].kind = "EAC_LR"
  THEN RatDiv(Whole(contCorrect), Whole(mesh[movieScreenLeft].frame.h))
  ELSE Whole(0)
AtMost(a, b) == IsFinite(a) /\ IsFinite(b) /\ ~RatGreater(a, b)
\* C27: in a stereo build the left-eye surface samples one half of the frame
\* and the right-eye surface the other (left and right halves for the LR
\* kinds, upper and lower halves for TB); the two regions share at most the
\* dividing line, except that under EAC_LR each may pass it by no more than
\* the width of the continuity correction.
C27_EyeRegionsDisjoint ==
  PositivePair =>
    IF mesh[movieScreenLeft].kind = "360_TB"
    THEN \A a \in LeftSamples, b \in RightSamples :
           AtMost(b.v, Half) /\ AtMost(Half, a.v)
    ELSE \A a \in LeftSamples, b \in RightSamples :
           /\ AtMost(a.u, RatPlus(Half, Margin))
           /\ AtMost(RatMinus(Half, Margin), b.u)
           /\ AtMost(RatMinus(a.u, b.u), Margin)

\* a pair of each way of splitting is on the scene: left and right halves,
\* upper and lower halves, and the two eyes of EAC_LR from a 3840 x 2160
\* frame
C27_Witness ==
  /\ PositivePair
  /\ mesh[movieScreenLeft].kind = "EAC_LR"
  /\ mesh[movieScreenLeft].frame = DefaultFrame
  /\ \E a \in LeftSamples : RatLess(a.u, Half)
  /\ \E b \in RightSamples : RatGreater(b.u, Half)

\* the EAC surfaces on the scene computed from a frame of positive size
EACFromPositive == {i \in FromPositiveFrame : mesh[i].kind \in {"EAC", "EAC_LR"}}
\* C28: in an EAC build from a frame of height h the corners on the lowest V
\* edge of every face are raised by exactly 2 / h, those on its highest V
\* edge are lowered by exactly 2 / h, and no corner is corrected twice.
C28_EACInsetIsTwoOverHeight ==
  \A i \in EACFromPositive :
    LET h == mesh[i].frame.h
        inset == RatDiv(Whole(contCorrect), Whole(h))
    IN \A face \in EACFaces : \A k \in 1..4 :
         LET was == face[k].v
             now == CorrectedFace(face, h)[k].v
         IN /\ was = LowY(face) => now = RatPlus(was, inset)
            /\ was = HighY(face) => now = RatMinus(was, inset)

\* C29: a frame of zero width or height does not break a build: no division
\* by zero occurs in the EAC correction or in the aspect fit of SBS_MONO, and
\* every UV coordinate and plane dimension is a finite number.
C29_ZeroFrameIsHarmless ==
  \A i \in children :
    /\ \A uv \in WrittenUVs(mesh[i].kind, mesh[i].eye, mesh[i].frame) :
         IsFinite(uv.u) /\ IsFinite(uv.v)
    /\ mesh[i].kind = "SBS_MONO" =>
         /\ IsFinite(PlaneSize(mesh[i].frame).planeWidth)
         /\ IsFinite(PlaneSize(mesh[i].frame).planeHeight)

NeverLoaded == ~thumbnail.succeeded

\* C30: a thumbnail whose load fails every time is requested at most
\* maxRetries times in total, and is never requested once it is on the
\* permanent blacklist
C30_FailingThumbnailBounded ==
  NeverLoaded =>
    /\ thumbnail.attempts <= maxRetries
    /\ ~thumbnail.afterBlacklist
    /\ (thumbnail.permanentlyFailed => ~thumbnail.loading)

====
